---------------------------- MODULE Spec2Model ----------------------------
(***************************************************************************)
(* Cozy developer guides: the Trigger contracts (ITrigger,                 *)
(* TriggerInterface and the MockTrigger variants) and the DSProxyMulticall *)
(* batch executor, as state machines.                                      *)
(*                                                                         *)
(* A transaction sent to a trigger is one step: it commits all the writes  *)
(* of its handler or reverts and leaves the storage as it was. The chain    *)
(* orders transactions, so calls by different accounts interleave as whole  *)
(* calls. A batchCalls transaction is followed through its loop, one call   *)
(* at a time; its revert restores the chain state of its start.             *)
(*                                                                         *)
(* Also modelled: a protection market consulting its trigger, the helper   *)
(* methods a batch runs by delegatecall (transferAll, repayBorrowCozyToken, *)
(* repayBorrowCozyEther), and the CozyInvestCurve3CryptoEth adapter         *)
(* (invest, divest, claimRewards), each adapter transaction one step; and   *)
(* findLog of utils.ts, applied by a script to the receipt of a            *)
(* transaction.                                                            *)
(***************************************************************************)
EXTENDS Integers, Sequences, FiniteSets, TLC

VARIABLES
    kind,          \* which trigger contract is deployed ("none" before deployment)
    trigger,       \* the trigger's storage: name, symbol, description, platformIds,
                   \* recipient, isTriggered, shouldToggle
    extCondition,  \* the external protocol state an ITrigger subclass reads in
                   \* checkTriggerCondition()
    logs,          \* the events the trigger has emitted, oldest first
    lastCall,      \* the last transaction sent to the trigger and its outcome
    ctorArgs,      \* the arguments the constructor was given
    flagHistory,   \* the successive values isTriggered has taken
    everReturnedTrue,  \* some checkAndToggleTrigger call has returned true
    everReturnedFalse, \* some checkAndToggleTrigger call has returned false
    checkedWhileMet,   \* some checkAndToggleTrigger call ran with the condition met
    condAtDeploy,      \* the value of the trigger condition right after deployment
    checkCallers,      \* the accounts that have called checkAndToggleTrigger
    marketTriggered,   \* the own isTriggered flag of the protection market that
                       \* uses the trigger
    world,         \* the chain state a batch acts on: native and token balances, the
                   \* proxy's debt in the markets, the target contract's storage,
                   \* the events of the transaction; and, for the record, the
                   \* repay calls the transaction has made and the answers the
                   \* markets are going to give
    snapshot,      \* the chain state at the start of the transaction, restored by
                   \* a revert
    pc,            \* where batchCalls is: "idle", "loop" (at the loop head) or
                   \* "handle" (a call has returned, its result is not yet handled)
    callsLength,   \* _calls.length
    loopIndex,     \* the loop index i, zero-based as in the code
    done,          \* the calls the loop has reached so far, with their results
    returnData,    \* _returnData
    lastTx,        \* the status of the transaction and what it returned
    position,      \* the chain state the invest adapter acts on: the proxy's debt in
                   \* the markets, its native balance, its receipt tokens, its stake
                   \* in the gauge, its allowances
    lastOp,        \* the last adapter transaction: its arguments, its outcome and
                   \* the external calls it made
    receipt,       \* the receipt of the transaction a script has sent: its status
                   \* and its logs
    lastFind       \* the last findLog call of the script: its arguments and its
                   \* outcome

triggerVars == <<kind, trigger, extCondition, logs, lastCall, ctorArgs, flagHistory,
                 everReturnedTrue, everReturnedFalse, checkedWhileMet, condAtDeploy,
                 checkCallers>>

batchVars == <<world, snapshot, pc, callsLength, loopIndex, done, returnData, lastTx>>

marketVars == <<marketTriggered>>

adapterVars == <<position, lastOp>>

utilVars == <<receipt, lastFind>>

vars == <<triggerVars, marketVars, batchVars, adapterVars, utilVars>>

\* What a transaction sent to the trigger by an account leaves alone, and what a
\* batch leaves alone.
nonTriggerVars == <<marketVars, batchVars, adapterVars, utilVars>>
nonBatchVars == <<triggerVars, marketVars, adapterVars, utilVars>>
nonAdapterVars == <<triggerVars, marketVars, batchVars, utilVars>>
nonUtilVars == <<triggerVars, marketVars, batchVars, adapterVars>>

-----------------------------------------------------------------------------
(* Bounds *)

\* Accounts 1..NumAccounts may send transactions.
NumAccounts == 2

\* platformIds arrays of up to MaxPlatformIds entries are passed to the constructor.
MaxPlatformIds == 2

\* The event log is followed up to MaxLogs entries.
MaxLogs == 3

\* A batch holds up to MaxBatch calls.
MaxBatch == 3

\* The proxy holds up to MaxProxyEth of native currency when the batch starts.
MaxProxyEth == 2

\* The proxy holds up to MaxTokens of the token when a helper is called.
MaxTokens == 2

\* The proxy owes a market up to MaxDebt when a helper is called.
MaxDebt == 2

\* invest borrows up to MaxBorrow in one call, and the venue mints up to
\* MaxBorrow receipt tokens for it.
MaxBorrow == 1

\* The adapter is followed while the proxy's debt, its stake and every native
\* balance are at most MaxPosition.
MaxPosition == 2

\* Up to MaxValue of native currency is attached to an adapter call.
MaxValue == 1

\* A receipt holds up to MaxReceiptLogs logs.
MaxReceiptLogs == 3

Accounts == 1..NumAccounts
PlatformIdSet == {3, 4}
Names == {"Mock Trigger"}
Symbols == {"MOCK"}
Descriptions == {"A mock trigger that anyone can toggle"}
Recipients == {"0x1234", "0x5678"}

RECURSIVE SeqsUpTo(_, _)
SeqsUpTo(S, n) ==
    IF n = 0 THEN {<<>>}
    ELSE LET shorter == SeqsUpTo(S, n - 1)
         IN shorter \cup {Append(s, x) : s \in {q \in shorter : Len(q) = n - 1}, x \in S}

PlatformIdArrays == SeqsUpTo(PlatformIdSet, MaxPlatformIds)

-----------------------------------------------------------------------------
(* The trigger contracts *)

\* The four deployable trigger contracts of the repository.
\*   "ITrigger"         a subclass of the abstract ITrigger whose
\*                      checkTriggerCondition() reads external protocol state
\*   "MockTriggerFlag"  MockTrigger is ITrigger, with the manual shouldToggle flag
\*   "MockTriggerV1"    MockTrigger is TriggerInterface, declaring its own storage
\*   "MockTriggerV2"    MockTrigger is TriggerInterface, inheriting the storage
Kinds == {"ITrigger", "MockTriggerFlag", "MockTriggerV1", "MockTriggerV2"}

\* Storage of a contract that has not been constructed: every slot is zero.
ZeroStorage ==
    [name |-> "", symbol |-> "", description |-> "", platformIds |-> <<>>,
     recipient |-> "0x0", isTriggered |-> FALSE, shouldToggle |-> FALSE]

\* A value passed to or returned by a call: nothing, a bool, a string, a uint256
\* or a uint256 array.
NoValue == [type |-> "none", bool |-> FALSE, text |-> "", uint |-> 0, array |-> <<>>]
BoolValue(b) == [NoValue EXCEPT !.type = "bool", !.bool = b]
TextValue(x) == [NoValue EXCEPT !.type = "string", !.text = x]
UintValue(x) == [NoValue EXCEPT !.type = "uint256", !.uint = x]
ArrayValue(x) == [NoValue EXCEPT !.type = "uint256[]", !.array = x]

\* The outcome of a call: the storage it leaves, what it returns, the events it
\* emits, whether it reverted (and why) and whether it evaluated the trigger
\* condition.
Outcome(storage, ret, emitted, condEvaluated) ==
    [storage |-> storage, ret |-> ret, emitted |-> emitted, reverted |-> FALSE,
     reason |-> "", condEvaluated |-> condEvaluated]

\* A reverted call: the storage is the one the call started from, nothing is
\* emitted.
Revert(storage, reason) ==
    [storage |-> storage, ret |-> NoValue, emitted |-> <<>>, reverted |-> TRUE,
     reason |-> reason, condEvaluated |-> FALSE]

ITrigger_constructor_swapped(t, a) ==
    [t EXCEPT !.name = a.name, !.description = a.symbol, !.symbol = a.description,
              !.platformIds = a.platformIds, !.recipient = a.recipient]

\* ITrigger's constructor.
ITrigger_constructor(t, a) ==
    [t EXCEPT !.name = a.name, !.description = a.description, !.symbol = a.symbol,
              !.platformIds = a.platformIds, !.recipient = a.recipient]

\* TriggerInterface's constructor.
TriggerInterface_constructor(t, a) ==
    [t EXCEPT !.name = a.name, !.description = a.description, !.symbol = a.symbol,
              !.platformIds = a.platformIds, !.recipient = a.recipient]

\* The constructor of the MockTrigger that declares its own storage.
MockTriggerV1_constructor(t, a) ==
    [t EXCEPT !.name = a.name, !.description = a.description, !.symbol = a.symbol,
              !.platformIds = a.platformIds, !.recipient = a.recipient]

\* MockTrigger.isMarketTriggered (manual-flag mock).
isMarketTriggered(t) == t.shouldToggle

\* The manual-flag MockTrigger's constructor: ITrigger's constructor, then the
\* flag, then the check that the market is not already triggered.
MockTrigger_constructor(t, a) ==
    LET t1 == ITrigger_constructor(t, a)
        t2 == [t1 EXCEPT !.shouldToggle = a.shouldToggle]
    IN IF isMarketTriggered(t2) THEN Revert(t, "Already triggered")
       ELSE Outcome(t2, NoValue, <<>>, FALSE)

\* getPlatformIds(): the platformIds array, copied out element by element.
getPlatformIds(t) == [i \in 1..Len(t.platformIds) |-> t.platformIds[i]]

ITrigger_checkAndToggleTrigger_noShortCircuit(t, cond) ==
    IF ~cond THEN Outcome(t, BoolValue(FALSE), <<>>, TRUE)
    ELSE LET t2 == [t EXCEPT !.isTriggered = TRUE]
         IN Outcome(t2, BoolValue(t2.isTriggered), <<"TriggerActivated">>, TRUE)

\* ITrigger.checkAndToggleTrigger; cond is what checkTriggerCondition() returns
\* when it is called.
ITrigger_checkAndToggleTrigger(t, cond) ==
    IF t.isTriggered THEN Outcome(t, BoolValue(TRUE), <<>>, FALSE)
    ELSE IF ~cond THEN Outcome(t, BoolValue(FALSE), <<>>, TRUE)
    ELSE LET t2 == [t EXCEPT !.isTriggered = TRUE]
         IN Outcome(t2, BoolValue(t2.isTriggered), <<"TriggerActivated">>, TRUE)

MockTrigger_checkAndToggleTrigger_inverted(t) ==
    IF t.isTriggered THEN Outcome(t, BoolValue(TRUE), <<>>, FALSE)
    ELSE IF isMarketTriggered(t) THEN Outcome(t, BoolValue(FALSE), <<>>, TRUE)
    ELSE LET t2 == [t EXCEPT !.isTriggered = TRUE]
         IN Outcome(t2, BoolValue(t2.isTriggered), <<"TriggerActivated">>, TRUE)

MockTrigger_checkAndToggleTrigger_recheck(t) ==
    IF ~isMarketTriggered(t) THEN Outcome(t, BoolValue(FALSE), <<>>, TRUE)
    ELSE IF t.isTriggered THEN Outcome(t, BoolValue(TRUE), <<>>, TRUE)
    ELSE LET t2 == [t EXCEPT !.isTriggered = TRUE]
         IN Outcome(t2, BoolValue(t2.isTriggered), <<"TriggerActivated">>, TRUE)

MockTrigger_checkAndToggleTrigger_emitTwice(t) ==
    IF t.isTriggered THEN Outcome(t, BoolValue(TRUE), <<>>, FALSE)
    ELSE IF ~isMarketTriggered(t) THEN Outcome(t, BoolValue(FALSE), <<>>, TRUE)
    ELSE LET t2 == [t EXCEPT !.isTriggered = TRUE]
         IN Outcome(t2, BoolValue(t2.isTriggered), <<"TriggerActivated", "TriggerActivated">>, TRUE)

\* MockTrigger.checkAndToggleTrigger (manual-flag mock).
MockTrigger_checkAndToggleTrigger(t) ==
    IF t.isTriggered THEN Outcome(t, BoolValue(TRUE), <<>>, FALSE)
    ELSE IF ~isMarketTriggered(t) THEN Outcome(t, BoolValue(FALSE), <<>>, TRUE)
    ELSE LET t2 == [t EXCEPT !.isTriggered = TRUE]
         IN Outcome(t2, BoolValue(t2.isTriggered), <<"TriggerActivated">>, TRUE)

MockTriggerV1_checkAndToggleTrigger_emitFirst(t) ==
    IF t.isTriggered THEN Outcome(t, BoolValue(TRUE), <<"TriggerActivated">>, FALSE)
    ELSE LET t2 == [t EXCEPT !.isTriggered = ~t.isTriggered]
         IN Outcome(t2, BoolValue(t2.isTriggered), <<"TriggerActivated">>, FALSE)

\* MockTrigger.checkAndToggleTrigger of the mock that declares its own storage:
\* no condition, the first call toggles.
MockTriggerV1_checkAndToggleTrigger(t) ==
    IF t.isTriggered THEN Outcome(t, BoolValue(TRUE), <<>>, FALSE)
    ELSE LET t2 == [t EXCEPT !.isTriggered = ~t.isTriggered]
         IN Outcome(t2, BoolValue(t2.isTriggered), <<"TriggerActivated">>, FALSE)

MockTriggerV2_checkAndToggleTrigger_noGuard(t) ==
    LET t2 == [t EXCEPT !.isTriggered = ~t.isTriggered]
    IN Outcome(t2, BoolValue(t2.isTriggered), <<"TriggerActivated">>, FALSE)

\* MockTrigger.checkAndToggleTrigger of the mock that inherits TriggerInterface's
\* storage: no condition, the first call toggles.
MockTriggerV2_checkAndToggleTrigger(t) ==
    IF t.isTriggered THEN Outcome(t, BoolValue(TRUE), <<>>, FALSE)
    ELSE LET t2 == [t EXCEPT !.isTriggered = ~t.isTriggered]
         IN Outcome(t2, BoolValue(t2.isTriggered), <<"TriggerActivated">>, FALSE)

MockTrigger_setShouldToggle_noGuard(t, b) ==
    Outcome([t EXCEPT !.shouldToggle = b], NoValue, <<>>, FALSE)

MockTrigger_setShouldToggle_wrongSlot(t, b) ==
    IF t.isTriggered THEN Revert(t, "Cannot set after trigger event")
    ELSE Outcome([t EXCEPT !.shouldToggle = b, !.isTriggered = b], NoValue, <<>>, FALSE)

\* MockTrigger.setShouldToggle (manual-flag mock).
MockTrigger_setShouldToggle(t, b) ==
    IF t.isTriggered THEN Revert(t, "Cannot set after trigger event")
    ELSE Outcome([t EXCEPT !.shouldToggle = b], NoValue, <<>>, FALSE)

\* The compiler-generated getters of the public state variables; platformIds(i)
\* takes a zero-based index and reverts out of range.
Getters == {"name", "symbol", "description", "recipient", "isTriggered", "shouldToggle"}

publicGetter(t, g, i) ==
    CASE g = "name" -> Outcome(t, TextValue(t.name), <<>>, FALSE)
      [] g = "symbol" -> Outcome(t, TextValue(t.symbol), <<>>, FALSE)
      [] g = "description" -> Outcome(t, TextValue(t.description), <<>>, FALSE)
      [] g = "recipient" -> Outcome(t, TextValue(t.recipient), <<>>, FALSE)
      [] g = "isTriggered" -> Outcome(t, BoolValue(t.isTriggered), <<>>, FALSE)
      [] g = "shouldToggle" -> Outcome(t, BoolValue(t.shouldToggle), <<>>, FALSE)
      [] g = "platformIds" ->
            IF i < Len(t.platformIds)
            THEN Outcome(t, UintValue(t.platformIds[i + 1]), <<>>, FALSE)
            ELSE Revert(t, "")

\* The trigger condition of the deployed contract, as checkAndToggleTrigger would
\* find it now: checkTriggerCondition() for an ITrigger subclass,
\* isMarketTriggered() for the manual-flag mock; the other two mocks have no
\* condition and toggle on the first call.
conditionMet ==
    CASE kind = "ITrigger" -> extCondition
      [] kind = "MockTriggerFlag" -> isMarketTriggered(trigger)
      [] OTHER -> TRUE

\* checkAndToggleTrigger of the deployed contract.
dispatchCheckAndToggle ==
    CASE kind = "ITrigger" -> ITrigger_checkAndToggleTrigger(trigger, extCondition)
      [] kind = "MockTriggerFlag" -> MockTrigger_checkAndToggleTrigger(trigger)
      [] kind = "MockTriggerV1" -> MockTriggerV1_checkAndToggleTrigger(trigger)
      [] kind = "MockTriggerV2" -> MockTriggerV2_checkAndToggleTrigger(trigger)

\* The constructor of contract k.
dispatchConstructor(k, a) ==
    CASE k = "ITrigger" -> Outcome(ITrigger_constructor(ZeroStorage, a), NoValue, <<>>, FALSE)
      [] k = "MockTriggerFlag" -> MockTrigger_constructor(ZeroStorage, a)
      [] k = "MockTriggerV1" ->
            Outcome(MockTriggerV1_constructor(ZeroStorage, a), NoValue, <<>>, FALSE)
      [] k = "MockTriggerV2" ->
            Outcome(TriggerInterface_constructor(ZeroStorage, a), NoValue, <<>>, FALSE)

-----------------------------------------------------------------------------
(* DSProxyMulticall: the batch executor, run in the context of a DSProxy *)

\* Placeholder address to represent ETH.
ETH_ADDRESS == "0xEeeeeEeeeEeEeeEeEeEeeEEEeeeeEeeeeeeeEEeE"

\* Special address to flag a call to be executed in the calling DSProxy's context.
DELEGATECALL_ADDRESS == "0xde1Ede1Ede1eDE1edE1edE1EdE1EDE1EDe1EdE1e"

\* getRevertMessage reads a reason only from a response of at least this length.
MinReasonLength == 68

\* A bytes value: its length and what it encodes.
Bytes(len, sel, text, word) == [len |-> len, sel |-> sel, text |-> text, word |-> word]
EmptyBytes == Bytes(0, "", "", 0)

\* abi.encode of one uint256: one 32-byte word.
EncodeUint(x) == Bytes(32, "", "", x)

\* The payload of a revert with a reason string: the Error(string) selector, the
\* offset word, the length word and the string padded to whole words.
EncodeError(reason) ==
    Bytes(4 + 32 + 32 + 32 * ((Len(reason) + 31) \div 32), "Error", reason, 0)

\* The payload of a failed assertion: the Panic(uint256) selector and the code.
EncodePanic(code) == Bytes(4 + 32, "Panic", "", code)

\* The payload of a revert with a custom error of two words: its selector and
\* the two words, which do not lay out a string.
EncodeCustom(a, b) == Bytes(4 + 32 + 32, "Custom", "", a)

\* The result of a low-level call: the success flag, the returned bytes and the
\* chain state after it. A call that fails leaves the chain state as it was.
CallResult(success, response, w) == [success |-> success, response |-> response, world |-> w]

\* Native currency moved from one account to another.
MoveEth(w, from, to, amount) ==
    IF from = to THEN w
    ELSE [w EXCEPT !.eth[from] = @ - amount, !.eth[to] = @ + amount]

Min(a, b) == IF a < b THEN a ELSE b

\* The ERC-20 token the token market lends, and a transfer of it.
TokenAddress == "0x6B175474E89094C44Da98b954EedeAC495271d0F"

MoveToken(w, from, to, amount) ==
    IF from = to THEN w
    ELSE [w EXCEPT !.token[from] = @ - amount, !.token[to] = @ + amount]

\* The accounts that hold balances. The target contract has no receive function:
\* a plain transfer of native currency to it reverts.
Holders == {"proxy", "target", "user", "tokenMarket", "ethMarket", "maximillion"}
AcceptsEth(a) == a # "target"

\* An external target contract the proxy calls: deposit() is payable, counts the
\* deposits and returns the count; fail() reverts with a reason string,
\* failNoReason() with the empty string, failPanic() on an assertion and
\* failCustom() with a custom error; any other payload reverts with no data. A
\* call that carries more value than the proxy holds fails with no return data.
TargetCall(w, target, data, value) ==
    IF w.eth["proxy"] < value THEN CallResult(FALSE, EmptyBytes, w)
    ELSE IF data.fn = "deposit"
         THEN LET w1 == MoveEth(w, "proxy", target, value)
                  w2 == [w1 EXCEPT !.counter = @ + 1]
              IN CallResult(TRUE, EncodeUint(w2.counter), w2)
    ELSE IF data.fn = "fail" THEN CallResult(FALSE, EncodeError("Target failed"), w)
    ELSE IF data.fn = "failNoReason" THEN CallResult(FALSE, EncodeError(""), w)
    ELSE IF data.fn = "failPanic" THEN CallResult(FALSE, EncodePanic(1), w)
    ELSE IF data.fn = "failCustom" THEN CallResult(FALSE, EncodeCustom(1, 2), w)
    ELSE CallResult(FALSE, EmptyBytes, w)

\* A helper that reverts: the chain state is as before the helper; the record of
\* the repay calls keeps those the helper made.
HelperFailed(w, reason, attempts) ==
    CallResult(FALSE, EncodeError(reason), [w EXCEPT !.repays = attempts])

transferAll_allButOne(w, token, to) ==
    IF token = ETH_ADDRESS
    THEN IF AcceptsEth(to)
         THEN CallResult(TRUE, EmptyBytes,
                         MoveEth(w, "proxy", to,
                                 IF w.eth["proxy"] > 0 THEN w.eth["proxy"] - 1 ELSE 0))
         ELSE HelperFailed(w, "Address: unable to send value, recipient may have reverted",
                           w.repays)
    ELSE IF token = TokenAddress
    THEN CallResult(TRUE, EmptyBytes,
                    MoveToken(w, "proxy", to,
                              IF w.token["proxy"] > 0 THEN w.token["proxy"] - 1 ELSE 0))
    ELSE CallResult(FALSE, EmptyBytes, w)

\* transferAll(_token, _to) in the proxy's context: for the ETH placeholder the
\* proxy's whole native balance goes to _to, and sendValue reverts when _to does
\* not accept it; for the token the proxy's whole token balance goes to _to; an
\* address that holds no token contract makes the call fail.
transferAll(w, token, to) ==
    IF token = ETH_ADDRESS
    THEN IF AcceptsEth(to)
         THEN CallResult(TRUE, EmptyBytes, MoveEth(w, "proxy", to, w.eth["proxy"]))
         ELSE HelperFailed(w, "Address: unable to send value, recipient may have reverted",
                           w.repays)
    ELSE IF token = TokenAddress
    THEN CallResult(TRUE, EmptyBytes, MoveToken(w, "proxy", to, w.token["proxy"]))
    ELSE CallResult(FALSE, EmptyBytes, w)

\* type(uint256).max, the amount that asks a market to repay the whole debt; it
\* stands above every balance and debt.
MaxUint256 == 2147483647

\* The markets: the token market lends the token, the ether market native
\* currency.
Markets == {"tokenMarket", "ethMarket"}
underlying(market) == IF market = "ethMarket" THEN ETH_ADDRESS ELSE TokenAddress

\* The answer a market gives to the next repay call: the one planned for it,
\* "normal" when none is.
\*   "normal"  the market does what the call asks when it can, reverts otherwise
\*   "error"   the market returns a nonzero error code and changes nothing
\*   "revert"  the market reverts
Answers == {"normal", "error", "revert"}
NextAnswer(w) ==
    IF Len(w.repays) < Len(w.plan) THEN w.plan[Len(w.repays) + 1] ELSE "normal"

Attempt(w, market, amount, status) ==
    Append(w.repays, [market |-> market, amount |-> amount, status |-> status])

\* The token market's repayBorrowBehalf(borrower, repayAmount), called by the
\* proxy for its own debt: the amount (the whole debt for MaxUint256) is pulled
\* from the caller and taken off the debt; an amount above the caller's balance or
\* above the debt reverts. The result names the status "ok", "error" or "revert".
ICozyToken_repayBorrowBehalf(w, market, amount) ==
    LET actual == IF amount = MaxUint256 THEN w.debt[market] ELSE amount
        answer == NextAnswer(w)
        status == IF answer = "normal"
                  THEN IF actual <= w.token["proxy"] /\ actual <= w.debt[market]
                       THEN "ok" ELSE "revert"
                  ELSE answer
        w1 == [w EXCEPT !.repays = Attempt(w, market, amount, status)]
    IN [status |-> status,
        world |-> IF status = "ok"
                  THEN [MoveToken(w1, "proxy", market, actual) EXCEPT !.debt[market] = @ - actual]
                  ELSE w1]

repayBorrowCozyToken_alwaysFallback(w, market) ==
    IF underlying(market) = ETH_ADDRESS
    THEN HelperFailed(w, "Attempted to repay ETH market", w.repays)
    ELSE LET r1 == ICozyToken_repayBorrowBehalf(w, market, MaxUint256)
             r2 == ICozyToken_repayBorrowBehalf(r1.world, market, r1.world.token["proxy"])
         IN IF r2.status = "revert"
            THEN HelperFailed(w, "Market reverted", r2.world.repays)
            ELSE IF r2.status = "error"
            THEN HelperFailed(w, "Repay attempts failed", r2.world.repays)
            ELSE CallResult(TRUE, EmptyBytes, r2.world)

repayBorrowCozyToken_ignoresFallbackError(w, market) ==
    IF underlying(market) = ETH_ADDRESS
    THEN HelperFailed(w, "Attempted to repay ETH market", w.repays)
    ELSE LET r1 == ICozyToken_repayBorrowBehalf(w, market, MaxUint256)
         IN IF r1.status = "ok" THEN CallResult(TRUE, EmptyBytes, r1.world)
            ELSE LET r2 == ICozyToken_repayBorrowBehalf(r1.world, market,
                                                        r1.world.token["proxy"])
                 IN IF r2.status = "revert"
                    THEN HelperFailed(w, "Market reverted", r2.world.repays)
                    ELSE CallResult(TRUE, EmptyBytes, r2.world)

\* repayBorrowCozyToken(_market) in the proxy's context.
repayBorrowCozyToken(w, market) ==
    IF underlying(market) = ETH_ADDRESS
    THEN HelperFailed(w, "Attempted to repay ETH market", w.repays)
    ELSE LET r1 == ICozyToken_repayBorrowBehalf(w, market, MaxUint256)
         IN IF r1.status = "ok" THEN CallResult(TRUE, EmptyBytes, r1.world)
            ELSE LET r2 == ICozyToken_repayBorrowBehalf(r1.world, market,
                                                        r1.world.token["proxy"])
                 IN IF r2.status = "revert"
                    THEN HelperFailed(w, "Market reverted", r2.world.repays)
                    ELSE IF r2.status = "error"
                    THEN HelperFailed(w, "Repay attempts failed", r2.world.repays)
                    ELSE CallResult(TRUE, EmptyBytes, r2.world)

\* The ether market's payable repayBorrowBehalf(borrower), called with value for
\* the proxy's debt: the value is taken off the debt; the market reverts on any
\* failure, a value above the debt included.
ICozyEther_repayBorrowBehalf(w, sender, value) ==
    LET answer == NextAnswer(w)
        status == IF answer = "normal" /\ value <= w.debt["ethMarket"] THEN "ok" ELSE "revert"
        w1 == [w EXCEPT !.repays = Attempt(w, "ethMarket", value, status)]
    IN [status |-> status,
        world |-> IF status = "ok"
                  THEN [MoveEth(w1, sender, "ethMarket", value)
                           EXCEPT !.debt["ethMarket"] = @ - value]
                  ELSE w1]

\* Maximillion.repayBehalfExplicit(borrower, market), called by the proxy with
\* value for its own debt: it repays the debt or the value it received, whichever
\* is less, and sends the rest back to the caller.
IMaximillion_repayBehalfExplicit(w, value) ==
    LET received == MoveEth(w, "proxy", "maximillion", value)
        borrows == w.debt["ethMarket"]
        paid == IF value > borrows THEN borrows ELSE value
        r == ICozyEther_repayBorrowBehalf(received, "maximillion", paid)
    IN IF r.status = "ok"
       THEN [status |-> "ok", world |-> MoveEth(r.world, "maximillion", "proxy", value - paid)]
       ELSE [status |-> "revert", world |-> r.world]

repayBorrowCozyEther_forwardsDebtOnly(w, market) ==
    IF underlying(market) # ETH_ADDRESS
    THEN HelperFailed(w, "Attempted to repay token market", w.repays)
    ELSE IF w.eth["proxy"] < w.debt["ethMarket"]
    THEN HelperFailed(w, "", w.repays)
    ELSE LET r == IMaximillion_repayBehalfExplicit(w, w.debt["ethMarket"])
         IN IF r.status = "ok" THEN CallResult(TRUE, EmptyBytes, r.world)
            ELSE HelperFailed(w, "Market reverted", r.world.repays)

\* repayBorrowCozyEther(_market, _maximillion) in the proxy's context.
repayBorrowCozyEther(w, market) ==
    IF underlying(market) # ETH_ADDRESS
    THEN HelperFailed(w, "Attempted to repay token market", w.repays)
    ELSE LET r == IMaximillion_repayBehalfExplicit(w, w.eth["proxy"])
         IN IF r.status = "ok" THEN CallResult(TRUE, EmptyBytes, r.world)
            ELSE HelperFailed(w, "Market reverted", r.world.repays)

\* MULTICALL_ADDRESS.delegatecall(data): the executor's own method named by the
\* payload, run on the proxy's state; a payload that names no method fails with
\* no return data.
SelfCall(w, data) ==
    IF data.fn = "transferAll" THEN transferAll(w, data.token, data.to)
    ELSE IF data.fn = "repayBorrowCozyToken" THEN repayBorrowCozyToken(w, data.market)
    ELSE IF data.fn = "repayBorrowCozyEther" THEN repayBorrowCozyEther(w, data.market)
    ELSE CallResult(FALSE, EmptyBytes, w)

\* What the executor reverts with when abi.decode cannot read a string: no
\* reason at all.
DecodeFailed == ""

getRevertMessage_genericUnlessError(response) ==
    IF response.sel # "Error" \/ response.text = "" THEN "Transaction reverted silently"
    ELSE response.text

\* getRevertMessage: the selector is sliced off and the rest decoded as a string.
getRevertMessage(response) ==
    IF response.len < MinReasonLength THEN "Transaction reverted silently"
    ELSE IF response.sel = "Error" THEN response.text
    ELSE DecodeFailed

handleResult_abortOnAny(success, requireSuccess) ==
    IF ~success THEN "revert" ELSE "record"

handleResult_optionalOnly(success, requireSuccess) ==
    IF ~success THEN "emit" ELSE "record"

\* What batchCalls does with the result of a call: revert the batch, emit
\* CallFailed and record the response, or just record the response.
handleResult(success, requireSuccess) ==
    IF ~success /\ requireSuccess THEN "revert"
    ELSE IF ~success THEN "emit"
    ELSE "record"

\* The calls a batch may hold.
Payload(fn, token, to, market) == [fn |-> fn, token |-> token, to |-> to, market |-> market]
TargetPayloads == {Payload("deposit", "none", "none", "none"),
                   Payload("fail", "none", "none", "none")}
SelfPayloads == {Payload("transferAll", ETH_ADDRESS, "user", "none"),
                 Payload("unknown", "none", "none", "none")}
CallValues == 0..1
Calls ==
    [target : {"target"}, data : TargetPayloads, value : CallValues,
     requireSuccess : BOOLEAN]
    \cup
    [target : {DELEGATECALL_ADDRESS}, data : SelfPayloads, value : CallValues,
     requireSuccess : BOOLEAN]

InitialWorld(proxyEth) ==
    [eth |-> [a \in Holders |-> IF a = "proxy" THEN proxyEth ELSE 0],
     token |-> [a \in Holders |-> 0],
     debt |-> [tokenMarket |-> 0, ethMarket |-> 0],
     plan |-> <<>>,
     repays |-> <<>>,
     counter |-> 0,
     events |-> <<>>]

NoTx == [status |-> "none", reason |-> "", returned |-> <<>>, dirty |-> InitialWorld(0)]

\* No batch has been submitted; the proxy holds proxyEth.
BatchIdle(proxyEth) ==
    /\ world = InitialWorld(proxyEth)
    /\ snapshot = InitialWorld(proxyEth)
    /\ pc = "idle"
    /\ callsLength = 0
    /\ loopIndex = 0
    /\ done = <<>>
    /\ returnData = <<>>
    /\ lastTx = NoTx

-----------------------------------------------------------------------------
(* CozyInvestCurve3CryptoEth: the invest adapter, run in the context of a DSProxy *)

\* The two markets the constructor stores, and an address that is neither.
moneyMarket == "moneyMarket"
protectionMarket == "protectionMarket"
badMarket == "badMarket"
MarketAddresses == {moneyMarket, protectionMarket, badMarket}

\* The accounts native currency may be sent to; "target" accepts none.
RecipientAddresses == {"user", "target"}

\* An external call the adapter makes.
ExtCall(fn, target, amount) == [fn |-> fn, target |-> target, amount |-> amount]

\* The outcome of an adapter transaction: it succeeds and leaves position p, or
\* reverts and leaves the position it started from; calls are the external calls
\* it made.
Succeeded(p, calls) == [ok |-> TRUE, reason |-> "", position |-> p, calls |-> calls]
Reverted(p0, reason, calls) == [ok |-> FALSE, reason |-> reason, position |-> p0, calls |-> calls]

\* The position before the adapter is used. The venue is a pool shared with
\* other liquidity providers; its holdings are not followed, and neither is the
\* balance of a recipient: what it is sent is in the calls.
InitialPosition ==
    [debt |-> [m \in MarketAddresses |-> 0],
     eth |-> [proxy |-> 0],
     lp |-> 0,
     staked |-> 0,
     allowance |-> [depositZap |-> 0, gauge |-> 0]]

invest_noMarketCheck(p0, value, market, borrowAmount, minAmountOut, env) ==
    LET p == [p0 EXCEPT !.eth["proxy"] = @ + value]
        c1 == <<ExtCall("borrow", market, borrowAmount)>>
    IN IF env.borrow = "revert" THEN Reverted(p0, "Market reverted", c1)
       ELSE IF env.borrow = "error" THEN Reverted(p0, "Borrow failed", c1)
       ELSE
       LET p1 == [p EXCEPT !.eth["proxy"] = @ + borrowAmount,
                           !.debt[market] = @ + borrowAmount]
           c2 == Append(c1, ExtCall("add_liquidity", "depositZap", borrowAmount))
       IN IF p1.eth["proxy"] < borrowAmount \/ env.minted < minAmountOut
          THEN Reverted(p0, "Venue reverted", c2)
          ELSE
          LET p2 == [p1 EXCEPT !.eth["proxy"] = @ - borrowAmount,
                               !.lp = @ + env.minted]
              approve == p2.allowance["depositZap"] = 0
              p3 == IF approve THEN [p2 EXCEPT !.allowance["gauge"] = MaxUint256] ELSE p2
              c3 == IF approve THEN Append(c2, ExtCall("approve", "gauge", MaxUint256)) ELSE c2
              c4 == Append(c3, ExtCall("deposit", "gauge", env.minted))
          IN IF p3.allowance["gauge"] < env.minted \/ p3.lp < env.minted
             THEN Reverted(p0, "Gauge reverted", c4)
             ELSE Succeeded([p3 EXCEPT !.lp = @ - env.minted, !.staked = @ + env.minted], c4)

invest_ignoresBorrowError(p0, value, market, borrowAmount, minAmountOut, env) ==
    IF market # moneyMarket /\ market # protectionMarket
    THEN Reverted(p0, "Invalid borrow market", <<>>)
    ELSE
    LET p == [p0 EXCEPT !.eth["proxy"] = @ + value]
        c1 == <<ExtCall("borrow", market, borrowAmount)>>
    IN IF env.borrow = "revert" THEN Reverted(p0, "Market reverted", c1)
       ELSE
       LET p1 == IF env.borrow = "error" THEN p
                 ELSE [p EXCEPT !.eth["proxy"] = @ + borrowAmount,
                                !.debt[market] = @ + borrowAmount]
           c2 == Append(c1, ExtCall("add_liquidity", "depositZap", borrowAmount))
       IN IF p1.eth["proxy"] < borrowAmount \/ env.minted < minAmountOut
          THEN Reverted(p0, "Venue reverted", c2)
          ELSE
          LET p2 == [p1 EXCEPT !.eth["proxy"] = @ - borrowAmount,
                               !.lp = @ + env.minted]
              approve == p2.allowance["depositZap"] = 0
              p3 == IF approve THEN [p2 EXCEPT !.allowance["gauge"] = MaxUint256] ELSE p2
              c3 == IF approve THEN Append(c2, ExtCall("approve", "gauge", MaxUint256)) ELSE c2
              c4 == Append(c3, ExtCall("deposit", "gauge", env.minted))
          IN IF p3.allowance["gauge"] < env.minted \/ p3.lp < env.minted
             THEN Reverted(p0, "Gauge reverted", c4)
             ELSE Succeeded([p3 EXCEPT !.lp = @ - env.minted, !.staked = @ + env.minted], c4)

invest_depositsBorrowAmount(p0, value, market, borrowAmount, minAmountOut, env) ==
    IF market # moneyMarket /\ market # protectionMarket
    THEN Reverted(p0, "Invalid borrow market", <<>>)
    ELSE
    LET p == [p0 EXCEPT !.eth["proxy"] = @ + value]
        c1 == <<ExtCall("borrow", market, borrowAmount)>>
    IN IF env.borrow = "revert" THEN Reverted(p0, "Market reverted", c1)
       ELSE IF env.borrow = "error" THEN Reverted(p0, "Borrow failed", c1)
       ELSE
       LET p1 == [p EXCEPT !.eth["proxy"] = @ + borrowAmount,
                           !.debt[market] = @ + borrowAmount]
           c2 == Append(c1, ExtCall("add_liquidity", "depositZap", borrowAmount))
       IN IF p1.eth["proxy"] < borrowAmount \/ env.minted < minAmountOut
          THEN Reverted(p0, "Venue reverted", c2)
          ELSE
          LET p2 == [p1 EXCEPT !.eth["proxy"] = @ - borrowAmount,
                               !.lp = @ + env.minted]
              approve == p2.allowance["depositZap"] = 0
              p3 == IF approve THEN [p2 EXCEPT !.allowance["gauge"] = MaxUint256] ELSE p2
              c3 == IF approve THEN Append(c2, ExtCall("approve", "gauge", MaxUint256)) ELSE c2
              c4 == Append(c3, ExtCall("deposit", "gauge", borrowAmount))
          IN IF p3.allowance["gauge"] < borrowAmount \/ p3.lp < borrowAmount
             THEN Reverted(p0, "Gauge reverted", c4)
             ELSE Succeeded([p3 EXCEPT !.lp = @ - borrowAmount, !.staked = @ + borrowAmount], c4)

\* invest(_ethMarket, _borrowAmount, _curveMinAmountOut), called with value. env
\* is what the outside does: the market's answer to borrow ("normal": it lends
\* and returns 0, "error": it returns an error code, "revert") and the amount of
\* receipt tokens the venue mints.
invest(p0, value, market, borrowAmount, minAmountOut, env) ==
    IF market # moneyMarket /\ market # protectionMarket
    THEN Reverted(p0, "Invalid borrow market", <<>>)
    ELSE
    LET p == [p0 EXCEPT !.eth["proxy"] = @ + value]
        c1 == <<ExtCall("borrow", market, borrowAmount)>>
    IN IF env.borrow = "revert" THEN Reverted(p0, "Market reverted", c1)
       ELSE IF env.borrow = "error" THEN Reverted(p0, "Borrow failed", c1)
       ELSE
       LET p1 == [p EXCEPT !.eth["proxy"] = @ + borrowAmount,
                           !.debt[market] = @ + borrowAmount]
           c2 == Append(c1, ExtCall("add_liquidity", "depositZap", borrowAmount))
       IN IF p1.eth["proxy"] < borrowAmount \/ env.minted < minAmountOut
          THEN Reverted(p0, "Venue reverted", c2)
          ELSE
          LET p2 == [p1 EXCEPT !.eth["proxy"] = @ - borrowAmount,
                               !.lp = @ + env.minted]
              approve == p2.allowance["depositZap"] = 0
              p3 == IF approve THEN [p2 EXCEPT !.allowance["gauge"] = MaxUint256] ELSE p2
              c3 == IF approve THEN Append(c2, ExtCall("approve", "gauge", MaxUint256)) ELSE c2
              c4 == Append(c3, ExtCall("deposit", "gauge", env.minted))
          IN IF p3.allowance["gauge"] < env.minted \/ p3.lp < env.minted
             THEN Reverted(p0, "Gauge reverted", c4)
             ELSE Succeeded([p3 EXCEPT !.lp = @ - env.minted, !.staked = @ + env.minted], c4)

divest_repaysFreedOnly(p0, value, market, recipient, redeemAmount, minAmountOut, env) ==
    IF market # moneyMarket /\ market # protectionMarket
    THEN Reverted(p0, "Invalid borrow market", <<>>)
    ELSE
    LET p == [p0 EXCEPT !.eth["proxy"] = @ + value]
        c1 == <<ExtCall("withdraw", "gauge", redeemAmount)>>
    IN IF redeemAmount > p.staked THEN Reverted(p0, "Gauge reverted", c1)
       ELSE
       LET p1 == [p EXCEPT !.staked = @ - redeemAmount, !.lp = @ + redeemAmount]
           approve == p1.allowance["depositZap"] = 0
           p2 == IF approve THEN [p1 EXCEPT !.allowance["depositZap"] = MaxUint256] ELSE p1
           c2 == IF approve THEN Append(c1, ExtCall("approve", "depositZap", MaxUint256)) ELSE c1
           c3 == Append(c2, ExtCall("remove_liquidity_one_coin", "depositZap", redeemAmount))
       IN IF env.ethOut < minAmountOut \/ p2.allowance["depositZap"] < redeemAmount
          THEN Reverted(p0, "Venue reverted", c3)
          ELSE
          LET p3 == [p2 EXCEPT !.lp = @ - redeemAmount,
                               !.eth["proxy"] = @ + env.ethOut]
              forwarded == p3.eth["proxy"] - value
              repaid == Min(p3.debt[market], forwarded)
              c4 == Append(c3, ExtCall("repayBehalfExplicit", market, forwarded))
          IN IF env.repay # "normal" THEN Reverted(p0, "Market reverted", c4)
             ELSE
             LET p4 == [p3 EXCEPT !.debt[market] = @ - repaid,
                                  !.eth["proxy"] = @ - repaid]
                 c5 == Append(c4, ExtCall("sendValue", recipient, p4.eth["proxy"]))
             IN IF ~AcceptsEth(recipient)
                THEN Reverted(p0, "Address: unable to send value, recipient may have reverted",
                              c5)
                ELSE Succeeded([p4 EXCEPT !.eth["proxy"] = 0],
                               Append(c5, ExtCall("claim_rewards", recipient, 0)))

divest_noRewardClaim(p0, value, market, recipient, redeemAmount, minAmountOut, env) ==
    IF market # moneyMarket /\ market # protectionMarket
    THEN Reverted(p0, "Invalid borrow market", <<>>)
    ELSE
    LET p == [p0 EXCEPT !.eth["proxy"] = @ + value]
        c1 == <<ExtCall("withdraw", "gauge", redeemAmount)>>
    IN IF redeemAmount > p.staked THEN Reverted(p0, "Gauge reverted", c1)
       ELSE
       LET p1 == [p EXCEPT !.staked = @ - redeemAmount, !.lp = @ + redeemAmount]
           approve == p1.allowance["depositZap"] = 0
           p2 == IF approve THEN [p1 EXCEPT !.allowance["depositZap"] = MaxUint256] ELSE p1
           c2 == IF approve THEN Append(c1, ExtCall("approve", "depositZap", MaxUint256)) ELSE c1
           c3 == Append(c2, ExtCall("remove_liquidity_one_coin", "depositZap", redeemAmount))
       IN IF env.ethOut < minAmountOut \/ p2.allowance["depositZap"] < redeemAmount
          THEN Reverted(p0, "Venue reverted", c3)
          ELSE
          LET p3 == [p2 EXCEPT !.lp = @ - redeemAmount,
                               !.eth["proxy"] = @ + env.ethOut]
              forwarded == p3.eth["proxy"]
              repaid == Min(p3.debt[market], forwarded)
              c4 == Append(c3, ExtCall("repayBehalfExplicit", market, forwarded))
          IN IF env.repay # "normal" THEN Reverted(p0, "Market reverted", c4)
             ELSE
             LET p4 == [p3 EXCEPT !.debt[market] = @ - repaid,
                                  !.eth["proxy"] = forwarded - repaid]
                 c5 == Append(c4, ExtCall("sendValue", recipient, p4.eth["proxy"]))
             IN IF ~AcceptsEth(recipient)
                THEN Reverted(p0, "Address: unable to send value, recipient may have reverted",
                              c5)
                ELSE Succeeded([p4 EXCEPT !.eth["proxy"] = 0], c5)

\* divest(_ethMarket, _recipient, _redeemAmount, _curveMinAmountOut), called with
\* value. env is what the outside does: the native currency the venue pays out
\* for the receipt tokens, and the market's answer to the repayment ("normal" or
\* "revert").
divest(p0, value, market, recipient, redeemAmount, minAmountOut, env) ==
    IF market # moneyMarket /\ market # protectionMarket
    THEN Reverted(p0, "Invalid borrow market", <<>>)
    ELSE
    LET p == [p0 EXCEPT !.eth["proxy"] = @ + value]
        c1 == <<ExtCall("withdraw", "gauge", redeemAmount)>>
    IN IF redeemAmount > p.staked THEN Reverted(p0, "Gauge reverted", c1)
       ELSE
       LET p1 == [p EXCEPT !.staked = @ - redeemAmount, !.lp = @ + redeemAmount]
           approve == p1.allowance["depositZap"] = 0
           p2 == IF approve THEN [p1 EXCEPT !.allowance["depositZap"] = MaxUint256] ELSE p1
           c2 == IF approve THEN Append(c1, ExtCall("approve", "depositZap", MaxUint256)) ELSE c1
           c3 == Append(c2, ExtCall("remove_liquidity_one_coin", "depositZap", redeemAmount))
       IN IF env.ethOut < minAmountOut \/ p2.allowance["depositZap"] < redeemAmount
          THEN Reverted(p0, "Venue reverted", c3)
          ELSE
          LET p3 == [p2 EXCEPT !.lp = @ - redeemAmount,
                               !.eth["proxy"] = @ + env.ethOut]
              forwarded == p3.eth["proxy"]
              repaid == Min(p3.debt[market], forwarded)
              c4 == Append(c3, ExtCall("repayBehalfExplicit", market, forwarded))
          IN IF env.repay # "normal" THEN Reverted(p0, "Market reverted", c4)
             ELSE
             LET p4 == [p3 EXCEPT !.debt[market] = @ - repaid,
                                  !.eth["proxy"] = forwarded - repaid]
                 c5 == Append(c4, ExtCall("sendValue", recipient, p4.eth["proxy"]))
             IN IF ~AcceptsEth(recipient)
                THEN Reverted(p0, "Address: unable to send value, recipient may have reverted",
                              c5)
                ELSE Succeeded([p4 EXCEPT !.eth["proxy"] = 0],
                               Append(c5, ExtCall("claim_rewards", recipient, 0)))

\* claimRewards(_recipient).
claimRewards(p0, recipient) ==
    Succeeded(p0, <<ExtCall("claim_rewards", recipient, 0)>>)

\* The record of an adapter transaction. value is the native currency attached
\* to the call and paid what the venue returned (receipt tokens to invest, native
\* currency to divest); a reverted transaction received neither.
OpRecord(op, market, amount, borrow, value, paid, p0, r) ==
    [op |-> op, market |-> market, amount |-> amount, borrow |-> borrow,
     value |-> IF r.ok THEN value ELSE 0, paid |-> IF r.ok THEN paid ELSE 0,
     ok |-> r.ok, reason |-> r.reason, calls |-> r.calls, changed |-> r.position # p0]

NoOp ==
    [op |-> "none", market |-> "none", amount |-> 0, borrow |-> "none",
     value |-> 0, paid |-> 0,
     ok |-> FALSE, reason |-> "", calls |-> <<>>, changed |-> FALSE]

\* The adapter has not been used.
AdapterIdle ==
    /\ position = InitialPosition
    /\ lastOp = NoOp

-----------------------------------------------------------------------------
(* utils.ts: findLog and parseLog *)

\* The events a log may be of. "Transfer" is an event of a token, not of a Cozy
\* contract.
EventNames == {"Mint", "Failure", "Transfer"}

\* The logs of a receipt: the event and its arguments (for Failure the error
\* codes), as the chain recorded them.
ReceiptLogs == [event : EventNames, args : 1..2]

\* The interfaces findLog is handed: the event names the contract declares.
Interfaces == {{"Mint", "Failure"}, {"Mint"}}

\* undefined, and a parsed log.
Undefined == [parsed |-> FALSE, name |-> "", args |-> 0]
ParsedLog(l) == [parsed |-> TRUE, name |-> l.event, args |-> l.args]

\* parseLog(contract)(log): contract.interface.parseLog throws on a log of an
\* event the interface does not declare; parseLog returns undefined instead.
parseLog(contract, l) == IF l.event \in contract THEN ParsedLog(l) ELSE Undefined

\* logs.filter((log) => log?.name === name)[0]: the position of the first parsed
\* log of that name, zero when there is none.
FirstNamed(parsedLogs, name) ==
    LET hits == {k \in 1..Len(parsedLogs) :
                   parsedLogs[k].parsed /\ parsedLogs[k].name = name}
    IN IF hits = {} THEN 0 ELSE CHOOSE k \in hits : \A h \in hits : k <= h

\* The outcome of findLog: it returns the log at place found with the receipt, or
\* throws; printed are the arguments logFailure has printed.
Returned(k, l) ==
    [returned |-> TRUE, found |-> k, log |-> l, thrown |-> "", printed |-> <<>>]
Thrown(message, printed) ==
    [returned |-> FALSE, found |-> 0, log |-> Undefined, thrown |-> message,
     printed |-> printed]

NotFoundMessage == "Expected log name and Failure logs both not found in transaction"
FailedMessage ==
    "Transaction failed. See error codes above and check them against ErrorReporter.sol"

findLog_throwsOnUnparsed(rcpt, contract, logName) ==
    IF rcpt.status = 0 THEN Thrown("transaction failed", <<>>)
    ELSE IF \E k \in 1..Len(rcpt.logs) : rcpt.logs[k].event \notin contract
    THEN Thrown("no matching event", <<>>)
    ELSE
    LET parsedLogs == [k \in 1..Len(rcpt.logs) |-> parseLog(contract, rcpt.logs[k])]
        k == FirstNamed(parsedLogs, logName)
        f == FirstNamed(parsedLogs, "Failure")
    IN IF k # 0 THEN Returned(k, parsedLogs[k])
       ELSE IF f = 0 THEN Thrown(NotFoundMessage, <<>>)
       ELSE Thrown(FailedMessage, <<parsedLogs[f].args>>)

\* findLog(tx, contract, logName, provider). tx.wait() throws when the
\* transaction reverted (status 0).
findLog(rcpt, contract, logName) ==
    IF rcpt.status = 0 THEN Thrown("transaction failed", <<>>)
    ELSE
    LET parsedLogs == [k \in 1..Len(rcpt.logs) |-> parseLog(contract, rcpt.logs[k])]
        k == FirstNamed(parsedLogs, logName)
        f == FirstNamed(parsedLogs, "Failure")
    IN IF k # 0 THEN Returned(k, parsedLogs[k])
       ELSE IF f = 0 THEN Thrown(NotFoundMessage, <<>>)
       ELSE Thrown(FailedMessage, <<parsedLogs[f].args>>)

NoReceipt == [status |-> 1, logs |-> <<>>]
NoFind == [called |-> FALSE, contract |-> {}, logName |-> "", out |-> Thrown("", <<>>)]

\* No script has run.
UtilIdle ==
    /\ receipt = NoReceipt
    /\ lastFind = NoFind

-----------------------------------------------------------------------------
(* Transactions sent to the trigger *)

CallRecord(op, arg, pre, out) ==
    [op |-> op, arg |-> arg, preTriggered |-> pre.isTriggered,
     ret |-> out.ret, emitted |-> Len(out.emitted), reverted |-> out.reverted,
     reason |-> out.reason, condEvaluated |-> out.condEvaluated, byMarket |-> FALSE]

NoCall ==
    [op |-> "none", arg |-> NoValue, preTriggered |-> FALSE,
     ret |-> NoValue, emitted |-> 0, reverted |-> FALSE, reason |-> "",
     condEvaluated |-> FALSE, byMarket |-> FALSE]

\* The successive values of isTriggered, extended when the value changes.
Extend(h, v) == IF h[Len(h)] = v THEN h ELSE Append(h, v)

\* The storage, the log and the flag history after a call with outcome out.
Commit(out) ==
    /\ trigger' = out.storage
    /\ logs' = logs \o out.emitted
    /\ flagHistory' = Extend(flagHistory, out.storage.isTriggered)

Deployed == kind # "none"

CanLog == Len(logs) < MaxLogs /\ Len(flagHistory) < MaxLogs

NoArgs ==
    [name |-> "", symbol |-> "", description |-> "", platformIds |-> <<>>,
     recipient |-> "0x0", shouldToggle |-> FALSE]

\* No trigger is deployed.
TriggerIdle ==
    /\ kind = "none"
    /\ trigger = ZeroStorage
    /\ logs = <<>>
    /\ lastCall = NoCall
    /\ ctorArgs = NoArgs
    /\ flagHistory = <<FALSE>>
    /\ everReturnedTrue = FALSE
    /\ everReturnedFalse = FALSE
    /\ checkedWhileMet = FALSE
    /\ condAtDeploy = FALSE
    /\ checkCallers = {}

\* The protection market has not seen its trigger toggle.
MarketIdle == marketTriggered = FALSE

Init ==
    /\ TriggerIdle
    /\ MarketIdle
    /\ AdapterIdle
    /\ UtilIdle
    /\ extCondition \in BOOLEAN
    /\ BatchIdle(0)

\* An account deploys trigger contract k. A constructor that reverts deploys
\* nothing. Only an ITrigger subclass watches the external protocol state.
Deploy(caller, k, a) ==
    /\ ~Deployed
    /\ lastCall.op = "none"
    /\ LET out == dispatchConstructor(k, a)
       IN /\ lastCall' = CallRecord("constructor", TextValue(k), ZeroStorage, out)
          /\ IF out.reverted
             THEN UNCHANGED <<kind, trigger, logs, flagHistory, ctorArgs, condAtDeploy>>
             ELSE /\ kind' = k
                  /\ Commit(out)
                  /\ ctorArgs' = a
                  /\ condAtDeploy' = CASE k = "ITrigger" -> extCondition
                                       [] k = "MockTriggerFlag" -> isMarketTriggered(out.storage)
                                       [] OTHER -> TRUE
    /\ extCondition' = IF k = "ITrigger" THEN extCondition ELSE FALSE
    /\ UNCHANGED <<everReturnedTrue, everReturnedFalse, checkedWhileMet, checkCallers>>
    /\ UNCHANGED nonTriggerVars

\* Any account calls checkAndToggleTrigger().
CheckAndToggleTrigger(caller) ==
    /\ Deployed
    /\ CanLog
    /\ LET out == dispatchCheckAndToggle
       IN /\ Commit(out)
          /\ lastCall' = CallRecord("checkAndToggleTrigger", NoValue, trigger, out)
          /\ everReturnedTrue' = (everReturnedTrue \/ out.ret = BoolValue(TRUE))
          /\ everReturnedFalse' = (everReturnedFalse \/ out.ret = BoolValue(FALSE))
    /\ checkedWhileMet' = (checkedWhileMet \/ conditionMet)
    /\ checkCallers' = checkCallers \cup {caller}
    /\ UNCHANGED <<kind, extCondition, ctorArgs, condAtDeploy>>
    /\ UNCHANGED nonTriggerVars

\* Any account calls getPlatformIds().
GetPlatformIds(caller) ==
    /\ Deployed
    /\ lastCall' = CallRecord("getPlatformIds", NoValue, trigger,
                              Outcome(trigger, ArrayValue(getPlatformIds(trigger)), <<>>,
                                      FALSE))
    /\ UNCHANGED <<kind, trigger, extCondition, logs, ctorArgs, flagHistory,
                   everReturnedTrue, everReturnedFalse, checkedWhileMet, condAtDeploy,
                   checkCallers>>
    /\ UNCHANGED nonTriggerVars

\* Any account reads a public state variable through its getter.
PublicGetter(caller, g, i) ==
    /\ Deployed
    /\ g = "shouldToggle" => kind = "MockTriggerFlag"
    /\ LET out == publicGetter(trigger, g, i)
       IN /\ Commit(out)
          /\ lastCall' = CallRecord(g, UintValue(i), trigger, out)
    /\ UNCHANGED <<kind, extCondition, ctorArgs, everReturnedTrue, everReturnedFalse,
                   checkedWhileMet, condAtDeploy, checkCallers>>
    /\ UNCHANGED nonTriggerVars

\* Any account calls setShouldToggle(b) on the manual-flag mock.
SetShouldToggle(caller, b) ==
    /\ kind = "MockTriggerFlag"
    /\ CanLog
    /\ LET out == MockTrigger_setShouldToggle(trigger, b)
       IN /\ Commit(out)
          /\ lastCall' = CallRecord("setShouldToggle", BoolValue(b), trigger, out)
    /\ UNCHANGED <<kind, extCondition, ctorArgs, everReturnedTrue, everReturnedFalse,
                   checkedWhileMet, condAtDeploy, checkCallers>>
    /\ UNCHANGED nonTriggerVars

\* The protocol an ITrigger subclass watches changes state: the condition its
\* checkTriggerCondition() reads becomes true or false.
ProtocolStateChange ==
    /\ kind = "ITrigger"
    /\ extCondition' = ~extCondition
    /\ lastCall' = [NoCall EXCEPT !.op = "protocolStateChange"]
    /\ UNCHANGED <<kind, trigger, logs, ctorArgs, flagHistory, everReturnedTrue,
                   everReturnedFalse, checkedWhileMet, condAtDeploy, checkCallers>>
    /\ UNCHANGED nonTriggerVars

CtorArgs ==
    [name : Names, symbol : Symbols, description : Descriptions,
     platformIds : PlatformIdArrays, recipient : Recipients, shouldToggle : BOOLEAN]

Next ==
    \/ \E c \in Accounts, k \in Kinds, a \in CtorArgs : Deploy(c, k, a)
    \/ \E c \in Accounts : CheckAndToggleTrigger(c)
    \/ \E c \in Accounts : GetPlatformIds(c)
    \/ \E c \in Accounts, g \in Getters : PublicGetter(c, g, 0)
    \/ \E c \in Accounts, i \in 0..MaxPlatformIds : PublicGetter(c, "platformIds", i)
    \/ \E c \in Accounts, b \in BOOLEAN : SetShouldToggle(c, b)
    \/ ProtocolStateChange

Spec == Init /\ [][Next]_vars

-----------------------------------------------------------------------------
(* The protection market that uses the trigger *)

\* What the market does with the value its trigger's checkAndToggleTrigger()
\* returned: its own isTriggered flag is toggled, once, when the value is true.
Market_observe(flag, ret) == IF ~flag /\ ret = BoolValue(TRUE) THEN TRUE ELSE flag

\* The protection market calls its trigger's checkAndToggleTrigger() and takes
\* note of the answer.
MarketCheckAndToggleTrigger ==
    /\ Deployed
    /\ CanLog
    /\ LET out == dispatchCheckAndToggle
       IN /\ Commit(out)
          /\ lastCall' = [CallRecord("checkAndToggleTrigger", NoValue, trigger, out)
                            EXCEPT !.byMarket = TRUE]
          /\ everReturnedTrue' = (everReturnedTrue \/ out.ret = BoolValue(TRUE))
          /\ everReturnedFalse' = (everReturnedFalse \/ out.ret = BoolValue(FALSE))
          /\ marketTriggered' = Market_observe(marketTriggered, out.ret)
    /\ checkedWhileMet' = (checkedWhileMet \/ conditionMet)
    /\ UNCHANGED <<kind, extCondition, ctorArgs, condAtDeploy, checkCallers>>
    /\ UNCHANGED <<batchVars, adapterVars, utilVars>>

\* The trigger with its market: accounts deploy the trigger, call
\* checkAndToggleTrigger and setShouldToggle, the watched protocol changes state,
\* and the market consults the trigger.
MarketNext ==
    \/ \E c \in Accounts, k \in Kinds, a \in CtorArgs : Deploy(c, k, a)
    \/ \E c \in Accounts : CheckAndToggleTrigger(c)
    \/ \E c \in Accounts, b \in BOOLEAN : SetShouldToggle(c, b)
    \/ ProtocolStateChange
    \/ MarketCheckAndToggleTrigger

MarketSpec == Init /\ [][MarketNext]_vars

-----------------------------------------------------------------------------
(* The transaction that runs a batch *)

BatchInit ==
    /\ \E proxyEth \in 0..MaxProxyEth : BatchIdle(proxyEth)
    /\ TriggerIdle
    /\ MarketIdle
    /\ AdapterIdle
    /\ UtilIdle
    /\ extCondition = FALSE

\* The whole transaction reverts: the chain state of its start is restored.
RevertTx(reason) ==
    /\ world' = snapshot
    /\ pc' = "idle"
    /\ lastTx' = [status |-> "reverted", reason |-> reason, returned |-> <<>>,
                  dirty |-> world]

\* The proxy's owner submits a batch of len calls: batchCalls allocates
\* _returnData and enters the loop.
BatchCalls(len) ==
    /\ pc = "idle"
    /\ lastTx.status = "none"
    /\ pc' = "loop"
    /\ callsLength' = len
    /\ loopIndex' = 0
    /\ returnData' = [k \in 1..len |-> EmptyBytes]
    /\ snapshot' = world
    /\ lastTx' = [lastTx EXCEPT !.status = "pending"]
    /\ UNCHANGED <<world, done>>
    /\ UNCHANGED nonBatchVars

Dispatch_selfByPayload(call) ==
    /\ pc = "loop"
    /\ loopIndex < callsLength
    /\ IF call.target = DELEGATECALL_ADDRESS /\ call.value # 0
       THEN /\ RevertTx("Cannot send value with delegatecall")
            /\ done' = Append(done, [call |-> call, dispatched |-> FALSE,
                                     success |-> FALSE, response |-> EmptyBytes])
       ELSE LET r == IF call.data.fn = "transferAll" /\ call.value = 0
                     THEN SelfCall(world, call.data)
                     ELSE TargetCall(world, call.target, call.data, call.value)
            IN /\ world' = r.world
               /\ done' = Append(done, [call |-> call, dispatched |-> TRUE,
                                        success |-> r.success, response |-> r.response])
               /\ pc' = "handle"
               /\ UNCHANGED lastTx
    /\ UNCHANGED <<snapshot, callsLength, loopIndex, returnData>>
    /\ UNCHANGED nonBatchVars

Dispatch_valueCheckAsFailure(call) ==
    /\ pc = "loop"
    /\ loopIndex < callsLength
    /\ LET r == IF call.target = DELEGATECALL_ADDRESS /\ call.value # 0
                THEN CallResult(FALSE, EncodeError("Cannot send value with delegatecall"),
                                world)
                ELSE IF call.target = DELEGATECALL_ADDRESS
                THEN SelfCall(world, call.data)
                ELSE TargetCall(world, call.target, call.data, call.value)
       IN /\ world' = r.world
          /\ done' = Append(done, [call |-> call, dispatched |-> TRUE,
                                   success |-> r.success, response |-> r.response])
          /\ pc' = "handle"
          /\ UNCHANGED lastTx
    /\ UNCHANGED <<snapshot, callsLength, loopIndex, returnData>>
    /\ UNCHANGED nonBatchVars

\* The loop body up to the return of the call: _calls[i] is call, dispatched by
\* delegatecall when its target is DELEGATECALL_ADDRESS and by call otherwise.
Dispatch(call) ==
    /\ pc = "loop"
    /\ loopIndex < callsLength
    /\ IF call.target = DELEGATECALL_ADDRESS /\ call.value # 0
       THEN /\ RevertTx("Cannot send value with delegatecall")
            /\ done' = Append(done, [call |-> call, dispatched |-> FALSE,
                                     success |-> FALSE, response |-> EmptyBytes])
       ELSE LET r == IF call.target = DELEGATECALL_ADDRESS
                     THEN SelfCall(world, call.data)
                     ELSE TargetCall(world, call.target, call.data, call.value)
            IN /\ world' = r.world
               /\ done' = Append(done, [call |-> call, dispatched |-> TRUE,
                                        success |-> r.success, response |-> r.response])
               /\ pc' = "handle"
               /\ UNCHANGED lastTx
    /\ UNCHANGED <<snapshot, callsLength, loopIndex, returnData>>
    /\ UNCHANGED nonBatchVars

Handle_dropFailedResponse ==
    /\ pc = "handle"
    /\ LET d == done[loopIndex + 1]
           h == handleResult(d.success, d.call.requireSuccess)
       IN IF h = "revert"
          THEN /\ RevertTx(getRevertMessage(d.response))
               /\ UNCHANGED <<loopIndex, returnData>>
          ELSE /\ world' = IF h = "emit"
                           THEN [world EXCEPT !.events =
                                    Append(@, [name |-> "CallFailed", index |-> loopIndex])]
                           ELSE world
               /\ returnData' = IF h = "emit" THEN returnData
                                 ELSE [returnData EXCEPT ![loopIndex + 1] = d.response]
               /\ loopIndex' = loopIndex + 1
               /\ pc' = "loop"
               /\ UNCHANGED lastTx
    /\ UNCHANGED <<snapshot, callsLength, done>>
    /\ UNCHANGED nonBatchVars

\* The rest of the loop body: the result of the call is handled and the response
\* recorded.
Handle ==
    /\ pc = "handle"
    /\ LET d == done[loopIndex + 1]
           h == handleResult(d.success, d.call.requireSuccess)
       IN IF h = "revert"
          THEN /\ RevertTx(getRevertMessage(d.response))
               /\ UNCHANGED <<loopIndex, returnData>>
          ELSE /\ world' = IF h = "emit"
                           THEN [world EXCEPT !.events =
                                    Append(@, [name |-> "CallFailed", index |-> loopIndex])]
                           ELSE world
               /\ returnData' = [returnData EXCEPT ![loopIndex + 1] = d.response]
               /\ loopIndex' = loopIndex + 1
               /\ pc' = "loop"
               /\ UNCHANGED lastTx
    /\ UNCHANGED <<snapshot, callsLength, done>>
    /\ UNCHANGED nonBatchVars

\* The loop has run through the batch: batchCalls returns _returnData and the
\* transaction commits.
Return ==
    /\ pc = "loop"
    /\ loopIndex = callsLength
    /\ pc' = "idle"
    /\ lastTx' = [lastTx EXCEPT !.status = "committed", !.returned = returnData]
    /\ UNCHANGED <<world, snapshot, callsLength, loopIndex, done, returnData>>
    /\ UNCHANGED nonBatchVars

BatchNext ==
    \/ \E len \in 0..MaxBatch : BatchCalls(len)
    \/ \E call \in Calls : Dispatch(call)
    \/ Handle
    \/ Return

BatchSpec == BatchInit /\ [][BatchNext]_vars

-----------------------------------------------------------------------------
(* A batch whose calls fail in every way a call can fail *)

\* Calls to the target that succeed, revert with a reason, with the empty reason,
\* on an assertion, with a custom error or with no data, and helper calls that
\* revert with a reason longer than a word or name no method.
FailingPayloads ==
    {Payload(fn, "none", "none", "none") :
        fn \in {"deposit", "fail", "failNoReason", "failPanic", "failCustom", "unknown"}}

FailingCalls ==
    [target : {"target"}, data : FailingPayloads, value : {0}, requireSuccess : BOOLEAN]
    \cup
    [target : {DELEGATECALL_ADDRESS},
     data : {Payload("transferAll", ETH_ADDRESS, "target", "none"),
             Payload("unknown", "none", "none", "none")},
     value : {0}, requireSuccess : BOOLEAN]

RevertNext ==
    \/ \E len \in 1..(MaxBatch - 1) : BatchCalls(len)
    \/ \E call \in FailingCalls : Dispatch(call)
    \/ Handle
    \/ Return

RevertSpec == BatchInit /\ [][RevertNext]_vars

-----------------------------------------------------------------------------
(* A batch whose calls send the same payloads to the target and to the sentinel *)

\* deposit() is a method of the target and not of the executor; transferAll is
\* a method of the executor and not of the target.
MixedCalls ==
    [target : {"target", DELEGATECALL_ADDRESS},
     data : {Payload("deposit", "none", "none", "none"),
             Payload("transferAll", ETH_ADDRESS, "user", "none")},
     value : CallValues, requireSuccess : BOOLEAN]

DispatchNext ==
    \/ \E len \in 1..(MaxBatch - 1) : BatchCalls(len)
    \/ \E call \in MixedCalls : Dispatch(call)
    \/ Handle
    \/ Return

DispatchSpec == BatchInit /\ [][DispatchNext]_vars

-----------------------------------------------------------------------------
(* A helper method run by the proxy *)

\* The helper calls a batch may hold: transferAll, repayBorrowCozyToken and
\* repayBorrowCozyEther, addressed to DELEGATECALL_ADDRESS.
HelperPayloads ==
    {Payload("transferAll", ETH_ADDRESS, to, "none") : to \in {"user", "proxy", "target"}}
    \cup {Payload("transferAll", TokenAddress, to, "none") : to \in {"user", "proxy"}}
    \cup {Payload("repayBorrowCozyToken", "none", "none", m) : m \in Markets}
    \cup {Payload("repayBorrowCozyEther", "none", "none", m) : m \in Markets}

HelperCalls ==
    [target : {DELEGATECALL_ADDRESS}, data : HelperPayloads, value : {0},
     requireSuccess : BOOLEAN]

\* The chain before a helper runs: the proxy holds native currency and tokens and
\* owes the markets; the user holds one of each; the markets' answers to the next
\* two repay calls are planned.
HelperWorld(proxyEth, tokens, owed, plan) ==
    [InitialWorld(proxyEth) EXCEPT !.eth["user"] = 1,
                                   !.token["proxy"] = tokens,
                                   !.token["user"] = 1,
                                   !.debt = [tokenMarket |-> owed, ethMarket |-> owed],
                                   !.plan = plan]

HelperInit ==
    /\ \E proxyEth \in 0..MaxProxyEth, tokens \in 0..MaxTokens, owed \in 0..MaxDebt,
          plan \in [1..2 -> Answers] :
            /\ world = HelperWorld(proxyEth, tokens, owed, plan)
            /\ snapshot = HelperWorld(proxyEth, tokens, owed, plan)
    /\ pc = "idle"
    /\ callsLength = 0
    /\ loopIndex = 0
    /\ done = <<>>
    /\ returnData = <<>>
    /\ lastTx = NoTx
    /\ TriggerIdle
    /\ MarketIdle
    /\ AdapterIdle
    /\ UtilIdle
    /\ extCondition = FALSE

\* The proxy's owner has the proxy run one helper through batchCalls.
HelperNext ==
    \/ BatchCalls(1)
    \/ \E call \in HelperCalls : Dispatch(call)
    \/ Handle
    \/ Return

HelperSpec == HelperInit /\ [][HelperNext]_vars

-----------------------------------------------------------------------------
(* Transactions that run the adapter *)

AdapterInit ==
    /\ AdapterIdle
    /\ UtilIdle
    /\ TriggerIdle
    /\ MarketIdle
    /\ BatchIdle(0)
    /\ extCondition = FALSE

\* The position is followed while debt, stake and native balances are within
\* MaxPosition.
Followed(p) ==
    /\ p.debt[moneyMarket] + p.debt[protectionMarket] <= MaxPosition
    /\ p.staked <= MaxPosition
    /\ \A a \in DOMAIN p.eth : p.eth[a] <= MaxPosition

\* The proxy's owner has the proxy run invest.
Invest(value, market, borrowAmount, minAmountOut, env) ==
    /\ LET r == invest(position, value, market, borrowAmount, minAmountOut, env)
       IN /\ Followed(r.position)
          /\ position' = r.position
          /\ lastOp' = OpRecord("invest", market, borrowAmount, env.borrow, value, env.minted,
                               position, r)
    /\ UNCHANGED nonAdapterVars

\* The proxy's owner has the proxy run divest.
Divest(value, market, recipient, redeemAmount, minAmountOut, env) ==
    /\ LET r == divest(position, value, market, recipient, redeemAmount, minAmountOut, env)
       IN /\ Followed(r.position)
          /\ position' = r.position
          /\ lastOp' = OpRecord("divest", market, redeemAmount, env.repay, value, env.ethOut,
                               position, r)
    /\ UNCHANGED nonAdapterVars

\* The proxy's owner has the proxy run claimRewards.
ClaimRewards(recipient) ==
    /\ LET r == claimRewards(position, recipient)
       IN /\ position' = r.position
          /\ lastOp' = OpRecord("claimRewards", "none", 0, "none", 0, 0, position, r)
    /\ UNCHANGED nonAdapterVars

\* The inputs are varied as far as the call gets to read them: an invest that
\* stops at the market check or at the borrow does not reach the venue; a divest
\* that stops at the market check or at the withdrawal reverts whatever the value,
\* the recipient and the venue's payment, one that stops at the venue does not
\* reach the repayment, and one that stops at the repayment does not reach the
\* recipient. An input the call does not read is held at one value.
ReadIf(reached, values, unread) == IF reached THEN values ELSE {unread}

InvestInputs(market, borrow) ==
    LET atVenue == market # badMarket /\ borrow = "normal"
    IN {x \in ReadIf(atVenue, 0..1, 0) \X ReadIf(atVenue, 0..MaxBorrow, 0) : TRUE}

AdapterNext ==
    \/ \E market \in MarketAddresses, borrowAmount \in 0..MaxBorrow, borrow \in Answers :
          \E x \in InvestInputs(market, borrow) :
            Invest(0, market, borrowAmount, x[1], [borrow |-> borrow, minted |-> x[2]])
    \/ \E market \in MarketAddresses, redeemAmount \in 0..MaxPosition :
          LET atVenue == market # badMarket /\ redeemAmount <= position.staked
          IN \E minAmountOut \in ReadIf(atVenue, 0..1, 0),
                ethOut \in ReadIf(atVenue, 0..MaxBorrow, 0) :
               LET atRepay == atVenue /\ ethOut >= minAmountOut
               IN \E value \in ReadIf(atRepay, 0..MaxValue, 0),
                     repay \in ReadIf(atRepay, {"normal", "revert"}, "normal") :
                    \E recipient \in ReadIf(atRepay /\ repay = "normal",
                                            RecipientAddresses, "user") :
                      Divest(value, market, recipient, redeemAmount, minAmountOut,
                             [ethOut |-> ethOut, repay |-> repay])
    \/ \E recipient \in RecipientAddresses : ClaimRewards(recipient)

AdapterSpec == AdapterInit /\ [][AdapterNext]_vars

-----------------------------------------------------------------------------
(* One operation that calls into a market: invest, or repayBorrowCozyToken *)

MarketCallInit ==
    /\ HelperInit
    /\ world.eth["proxy"] = 0

NothingRun == pc = "idle" /\ lastTx.status = "none" /\ lastOp.op = "none"

\* The proxy's owner has the proxy run invest once, or repayBorrowCozyToken once
\* through batchCalls.
MarketCallNext ==
    \/ \E market \in MarketAddresses, borrowAmount \in 0..MaxBorrow, borrow \in Answers :
          \E x \in InvestInputs(market, borrow) :
            /\ NothingRun
            /\ Invest(0, market, borrowAmount, x[1], [borrow |-> borrow, minted |-> x[2]])
    \/ NothingRun /\ BatchCalls(1)
    \/ \E m \in Markets, b \in BOOLEAN :
          Dispatch([target |-> DELEGATECALL_ADDRESS,
                    data |-> Payload("repayBorrowCozyToken", "none", "none", m),
                    value |-> 0, requireSuccess |-> b])
    \/ Handle
    \/ Return

MarketCallSpec == MarketCallInit /\ [][MarketCallNext]_vars

-----------------------------------------------------------------------------
(* A script that sends a transaction and calls findLog on it *)

\* The receipts of up to MaxReceiptLogs logs. A reverted transaction has status 0
\* and no logs.
LogSeqs == UNION {[1..len -> ReceiptLogs] : len \in 0..MaxReceiptLogs}
Receipts == {[status |-> 1, logs |-> ls] : ls \in LogSeqs} \cup {[status |-> 0, logs |-> <<>>]}

FindLogInit ==
    /\ receipt \in Receipts
    /\ lastFind = NoFind
    /\ TriggerIdle
    /\ MarketIdle
    /\ BatchIdle(0)
    /\ AdapterIdle
    /\ extCondition = FALSE

\* The script calls findLog on the transaction.
FindLog(contract, logName) ==
    /\ lastFind' = [called |-> TRUE, contract |-> contract, logName |-> logName,
                    out |-> findLog(receipt, contract, logName)]
    /\ UNCHANGED receipt
    /\ UNCHANGED nonUtilVars

FindLogNext == \E contract \in Interfaces, logName \in EventNames : FindLog(contract, logName)

FindLogSpec == FindLogInit /\ [][FindLogNext]_vars

-----------------------------------------------------------------------------
(* Properties of the trigger contracts *)

IsCheck(call) == call.op = "checkAndToggleTrigger"

\* C1: isTriggered never goes from true to false and goes from false to true at
\* most once, whatever operations are called: the successive values of the flag
\* are false alone, or false then true; and no step takes the flag from true to
\* false.
C1_OneWayFlag ==
    /\ [](flagHistory \in {<<FALSE>>, <<FALSE, TRUE>>})
    /\ [][trigger.isTriggered => trigger'.isTriggered]_vars

\* A triggered contract on which further operations have been called, the last
\* of them by an account that may not change the manual flag any more.
C1_Witness ==
    /\ flagHistory = <<FALSE, TRUE>>
    /\ trigger.isTriggered
    /\ lastCall.op = "setShouldToggle"
    /\ lastCall.reverted

\* C3: once a checkAndToggleTrigger call has returned true, every later
\* checkAndToggleTrigger call returns true.
C3_StaysTrue ==
    [][(IsCheck(lastCall') /\ everReturnedTrue) => lastCall'.ret = BoolValue(TRUE)]_vars

\* A later call returns true although the watched condition no longer holds.
C3_Witness ==
    /\ kind = "ITrigger"
    /\ ~extCondition
    /\ IsCheck(lastCall)
    /\ lastCall.preTriggered
    /\ lastCall.ret = BoolValue(TRUE)
    /\ Cardinality(checkCallers) > 1

\* C4: a checkAndToggleTrigger call made while isTriggered is true returns true
\* without evaluating the trigger condition, changes no state variable and emits
\* no event.
C4_ShortCircuit ==
    [][(IsCheck(lastCall') /\ trigger.isTriggered) =>
          /\ lastCall'.ret = BoolValue(TRUE)
          /\ ~lastCall'.reverted
          /\ ~lastCall'.condEvaluated
          /\ lastCall'.emitted = 0
          /\ trigger' = trigger
          /\ logs' = logs
          /\ extCondition' = extCondition]_vars

\* A call that found the trigger already triggered.
C4_Witness ==
    /\ IsCheck(lastCall)
    /\ lastCall.preTriggered
    /\ lastCall.ret = BoolValue(TRUE)
    /\ logs = <<"TriggerActivated">>

\* C5: a checkAndToggleTrigger call made while isTriggered is false and the
\* condition is met sets isTriggered, emits exactly one TriggerActivated event and
\* returns true; the mocks without a condition do so on their first call.
C5_Toggle ==
    [][(IsCheck(lastCall') /\ ~trigger.isTriggered /\ conditionMet) =>
          /\ trigger' = [trigger EXCEPT !.isTriggered = TRUE]
          /\ logs' = Append(logs, "TriggerActivated")
          /\ lastCall'.emitted = 1
          /\ lastCall'.ret = BoolValue(TRUE)
          /\ ~lastCall'.reverted]_vars

\* The manual-flag mock deployed with platformIds = [3], its flag set to true,
\* then checked: it returned true, is triggered and has emitted one event.
C5_Witness ==
    /\ kind = "MockTriggerFlag"
    /\ ctorArgs.platformIds = <<3>>
    /\ IsCheck(lastCall)
    /\ ~lastCall.preTriggered
    /\ lastCall.ret = BoolValue(TRUE)
    /\ trigger.isTriggered
    /\ logs = <<"TriggerActivated">>

\* C6: a checkAndToggleTrigger call made while isTriggered is false and the
\* condition is not met returns false, changes no state and emits no event; and
\* every checkAndToggleTrigger call returns the value isTriggered has after it.
C6_NotMet ==
    /\ [][(IsCheck(lastCall') /\ ~trigger.isTriggered /\ ~conditionMet) =>
             /\ lastCall'.ret = BoolValue(FALSE)
             /\ ~lastCall'.reverted
             /\ lastCall'.emitted = 0
             /\ trigger' = trigger
             /\ logs' = logs
             /\ extCondition' = extCondition]_vars
    /\ [][IsCheck(lastCall') => lastCall'.ret = BoolValue(trigger'.isTriggered)]_vars

\* A call that found the condition not met.
C6_Witness ==
    /\ IsCheck(lastCall)
    /\ lastCall.condEvaluated
    /\ lastCall.ret = BoolValue(FALSE)
    /\ ~trigger.isTriggered
    /\ logs = <<>>

\* A trigger whose condition was false when it was deployed.
StartsUnmet == kind \in {"ITrigger", "MockTriggerFlag"} /\ ~condAtDeploy

\* C7: a trigger whose condition is false at first toggles exactly once, in the
\* first checkAndToggleTrigger call that finds the condition met: before such a
\* call it has not toggled, whatever the number of calls, and from then on it has
\* toggled once, whatever the number of calls.
C7_TogglesOnce ==
    StartsUnmet =>
        /\ Len(flagHistory) - 1 = (IF checkedWhileMet THEN 1 ELSE 0)
        /\ Len(logs) = (IF checkedWhileMet THEN 1 ELSE 0)

\* Calls before the condition became true returned false, a call after it
\* toggled, and a further call found the trigger triggered.
C7_Witness ==
    /\ StartsUnmet
    /\ everReturnedFalse
    /\ checkedWhileMet
    /\ IsCheck(lastCall)
    /\ lastCall.preTriggered
    /\ flagHistory = <<FALSE, TRUE>>
    /\ logs = <<"TriggerActivated">>

\* C8: whichever accounts call checkAndToggleTrigger and in whatever order, the
\* number of TriggerActivated events is 1 if isTriggered and 0 otherwise, and an
\* event is emitted in exactly the call that takes isTriggered from false to true.
C8_OneActivation ==
    /\ [](logs = IF trigger.isTriggered THEN <<"TriggerActivated">> ELSE <<>>)
    /\ [][(logs' # logs) <=>
            (IsCheck(lastCall') /\ ~trigger.isTriggered /\ trigger'.isTriggered)]_vars

\* Every account has called checkAndToggleTrigger and one event was emitted.
C8_Witness ==
    /\ checkCallers = Accounts
    /\ trigger.isTriggered
    /\ Len(logs) = 1
    /\ IsCheck(lastCall)
    /\ lastCall.preTriggered

\* C9: only checkAndToggleTrigger changes isTriggered: the constructor,
\* getPlatformIds, the getters and setShouldToggle leave it as it was, whether
\* they succeed or revert.
C9_OnlyCheckWrites ==
    [][(trigger'.isTriggered # trigger.isTriggered) => IsCheck(lastCall')]_vars

\* setShouldToggle(true) has succeeded and the trigger is still untriggered.
C9_Witness ==
    /\ lastCall.op = "setShouldToggle"
    /\ ~lastCall.reverted
    /\ trigger.shouldToggle
    /\ ~trigger.isTriggered

\* The metadata the storage holds is the metadata the constructor was given.
MetadataAsConstructed ==
    /\ trigger.name = ctorArgs.name
    /\ trigger.symbol = ctorArgs.symbol
    /\ trigger.description = ctorArgs.description
    /\ trigger.platformIds = ctorArgs.platformIds
    /\ trigger.recipient = ctorArgs.recipient

\* C10: name, symbol, description, platformIds and recipient stay what the
\* constructor was given; getPlatformIds returns the constructor's platformIds in
\* the same order and changes nothing.
C10_MetadataFixed ==
    /\ [](Deployed => MetadataAsConstructed)
    /\ [][lastCall'.op = "getPlatformIds" =>
             /\ lastCall'.ret = ArrayValue(ctorArgs.platformIds)
             /\ ~lastCall'.reverted
             /\ trigger' = trigger
             /\ logs' = logs
             /\ extCondition' = extCondition]_vars

\* getPlatformIds returned a two-entry array after the trigger was triggered.
C10_Witness ==
    /\ lastCall.op = "getPlatformIds"
    /\ lastCall.ret = ArrayValue(<<4, 3>>)
    /\ ctorArgs.platformIds = <<4, 3>>
    /\ trigger.isTriggered

\* C11: the market's own flag is a variable of its own, false at first; it
\* changes only from false to true, only in a step in which the market's call to
\* checkAndToggleTrigger returned true, and never goes back; and while it is true
\* the trigger's isTriggered is true.
C11_MarketFlag ==
    /\ [](lastCall.op = "none" => ~marketTriggered)
    /\ [][marketTriggered => marketTriggered']_vars
    /\ [][(marketTriggered' # marketTriggered) =>
            /\ IsCheck(lastCall')
            /\ lastCall'.byMarket
            /\ lastCall'.ret = BoolValue(TRUE)]_vars
    /\ [][(IsCheck(lastCall') /\ lastCall'.byMarket /\ lastCall'.ret = BoolValue(TRUE)) =>
            marketTriggered']_vars
    /\ [](marketTriggered => trigger.isTriggered)

\* An account toggled the trigger while the market's flag was still false; the
\* market then consulted the trigger, found it triggered and set its own flag.
C11_Witness ==
    /\ marketTriggered
    /\ trigger.isTriggered
    /\ IsCheck(lastCall)
    /\ lastCall.byMarket
    /\ lastCall.preTriggered
    /\ checkCallers # {}

-----------------------------------------------------------------------------
(* Properties of the batch executor *)

\* Call k of the batch (counted from 1) was dispatched, failed and was mandatory.
MandatoryFailure(k) ==
    /\ done[k].dispatched
    /\ ~done[k].success
    /\ done[k].call.requireSuccess

\* C2: when a call with requireSuccess = true fails, the batch fails and the
\* chain state (balances, target storage, CallFailed events) is again what it was
\* before the batch; no batch in which a mandatory call failed commits.
C2_AtomicOnMandatoryFailure ==
    /\ [][(pc = "handle" /\ MandatoryFailure(loopIndex + 1)) =>
             /\ lastTx'.status = "reverted"
             /\ pc' = "idle"
             /\ world' = snapshot]_vars
    /\ [](lastTx.status = "reverted" => (pc = "idle" /\ world = snapshot))
    /\ [](lastTx.status = "committed" => \A k \in 1..Len(done) : ~MandatoryFailure(k))

\* A batch reverted on its third call after an earlier call had moved value and
\* changed the target's storage and an optional call had failed: none of it is
\* left.
C2_Witness ==
    /\ lastTx.status = "reverted"
    /\ Len(done) = 3
    /\ MandatoryFailure(3)
    /\ lastTx.dirty.eth # snapshot.eth
    /\ lastTx.dirty.counter # snapshot.counter
    /\ lastTx.dirty.events # <<>>
    /\ world = snapshot
    /\ world.events = <<>>

\* Call k of the batch (counted from 1) was dispatched, failed and was optional.
OptionalFailure(k) ==
    /\ done[k].dispatched
    /\ ~done[k].success
    /\ ~done[k].call.requireSuccess

\* The CallFailed events a run through calls d emits: one per failed call, tagged
\* with the call's zero-based index, in call order.
RECURSIVE FailureEvents(_)
FailureEvents(d) ==
    IF d = <<>> THEN <<>>
    ELSE LET front == FailureEvents(SubSeq(d, 1, Len(d) - 1))
         IN IF d[Len(d)].success THEN front
            ELSE Append(front, [name |-> "CallFailed", index |-> Len(d) - 1])

\* The successful deposit() calls among calls d, and the value they carried.
Deposits(d) == {k \in 1..Len(d) : d[k].success /\ d[k].call.data.fn = "deposit"}

RECURSIVE ValueOf(_, _)
ValueOf(d, ks) ==
    IF ks = {} THEN 0
    ELSE LET k == CHOOSE x \in ks : TRUE
         IN d[k].call.value + ValueOf(d, ks \ {k})

\* C12: a failed call with requireSuccess = false does not abort the batch: the
\* loop goes on to the next call, one CallFailed event with the call's index is
\* emitted and nothing else changes; a successful call emits none; and a batch
\* that completes has run every call, holds one CallFailed per failed call and
\* none for the others, and the effects of its successful calls are in the
\* committed state.
C12_OptionalFailureContinues ==
    /\ [][(pc = "handle" /\ OptionalFailure(loopIndex + 1)) =>
             /\ pc' = "loop"
             /\ loopIndex' = loopIndex + 1
             /\ lastTx'.status = "pending"
             /\ world' = [world EXCEPT !.events =
                             Append(@, [name |-> "CallFailed", index |-> loopIndex])]]_vars
    /\ [][(pc = "handle" /\ done[loopIndex + 1].success) => world' = world]_vars
    /\ [](lastTx.status = "committed" =>
             /\ Len(done) = callsLength
             /\ \A k \in 1..Len(done) : done[k].dispatched
             /\ world.events = FailureEvents(done)
             /\ world.counter = snapshot.counter + Cardinality(Deposits(done))
             /\ world.eth["target"] = snapshot.eth["target"] + ValueOf(done, Deposits(done)))

\* A committed batch of three calls whose second call was optional and failed:
\* the first and the third call deposited value, one CallFailed(1) was emitted.
C12_Witness ==
    /\ lastTx.status = "committed"
    /\ Len(done) = 3
    /\ OptionalFailure(2)
    /\ done[1].success /\ done[3].success
    /\ world.counter = 2
    /\ world.eth["target"] = 2
    /\ world.events = <<[name |-> "CallFailed", index |-> 1]>>
    /\ Len(lastTx.returned) = 3

\* The call the loop has just reached is a self-context call that carries value.
SelfCallWithValue(d) == d.call.target = DELEGATECALL_ADDRESS /\ d.call.value # 0

\* C13: when the loop reaches a call whose target is DELEGATECALL_ADDRESS and
\* whose value is not zero, whatever its payload and its requireSuccess, the
\* transaction reverts with "Cannot send value with delegatecall", the payload is
\* not dispatched and the chain state is that of the batch's start; no batch
\* holding such a call commits.
C13_NoValueWithDelegatecall ==
    /\ [][(pc = "loop" /\ Len(done') > Len(done) /\ SelfCallWithValue(done'[Len(done')])) =>
             /\ lastTx'.status = "reverted"
             /\ lastTx'.reason = "Cannot send value with delegatecall"
             /\ ~done'[Len(done')].dispatched
             /\ pc' = "idle"
             /\ world' = snapshot]_vars
    /\ [](\A k \in 1..Len(done) : SelfCallWithValue(done[k]) =>
              /\ ~done[k].dispatched
              /\ lastTx.status = "reverted"
              /\ world = snapshot)

\* An optional transferAll carrying value, reached after a deposit had moved
\* value: the batch reverted and the deposit is undone.
C13_Witness ==
    /\ lastTx.status = "reverted"
    /\ lastTx.reason = "Cannot send value with delegatecall"
    /\ Len(done) = 2
    /\ done[1].success
    /\ SelfCallWithValue(done[2])
    /\ done[2].call.data.fn = "transferAll"
    /\ ~done[2].call.requireSuccess
    /\ lastTx.dirty.counter = 1
    /\ lastTx.dirty.eth["target"] = 1
    /\ world = snapshot

\* C14: a batch that completes returns one payload per call, in call order: the
\* result is as long as the batch and its element i is the response of call i,
\* for a call that succeeded and for an optional call that failed; an empty batch
\* returns an empty sequence.
C14_OnePayloadPerCall ==
    lastTx.status = "committed" =>
        /\ Len(lastTx.returned) = callsLength
        /\ Len(done) = callsLength
        /\ \A k \in 1..callsLength : lastTx.returned[k] = done[k].response
        /\ callsLength = 0 => lastTx.returned = <<>>

\* A committed batch of three: the count returned by a deposit, the revert
\* payload of an optional call that failed, the empty response of transferAll.
C14_Witness ==
    /\ lastTx.status = "committed"
    /\ callsLength = 3
    /\ lastTx.returned[1] = EncodeUint(1)
    /\ OptionalFailure(2)
    /\ lastTx.returned[2] = EncodeError("Target failed")
    /\ done[3].call.data.fn = "transferAll"
    /\ done[3].success
    /\ lastTx.returned[3] = EmptyBytes

-----------------------------------------------------------------------------
(* Properties of the helper methods *)

\* The helper named fn has just run as the only call of the batch.
HelperRan(fn) == pc = "handle" /\ Len(done) = 1 /\ done[1].call.data.fn = fn

\* The chain state without the record of the repay calls.
Chain(w) == [w EXCEPT !.repays = <<>>]

\* C15: repayBorrowCozyToken on a token market first calls
\* repayBorrowBehalf(proxy, MaxUint256); when that call succeeds it makes no other
\* repay call and succeeds; when it returns an error code or reverts, it calls
\* repayBorrowBehalf(proxy, the proxy's token balance) once; the helper succeeds
\* when the second call succeeds and fails when it does not, with "Repay attempts
\* failed" when the second call returned an error code. No transaction makes more
\* than two repay calls.
C15_OneRetryTier ==
    /\ Len(world.repays) <= 2
    /\ (HelperRan("repayBorrowCozyToken") /\ done[1].call.data.market = "tokenMarket") =>
          LET attempts == world.repays
          IN /\ Len(attempts) \in {1, 2}
             /\ attempts[1].market = "tokenMarket"
             /\ attempts[1].amount = MaxUint256
             /\ attempts[1].status = "ok" => (Len(attempts) = 1 /\ done[1].success)
             /\ attempts[1].status # "ok" =>
                   /\ Len(attempts) = 2
                   /\ attempts[2].market = "tokenMarket"
                   /\ attempts[2].amount = snapshot.token["proxy"]
                   /\ done[1].success <=> attempts[2].status = "ok"
                   /\ attempts[2].status = "error" =>
                         done[1].response = EncodeError("Repay attempts failed")
                   /\ ~done[1].success => Chain(world) = Chain(snapshot)

\* The proxy owes 2 and holds 1: repaying everything reverted, the fallback
\* repaid 1 and the batch committed.
C15_Witness ==
    /\ lastTx.status = "committed"
    /\ done[1].call.data.fn = "repayBorrowCozyToken"
    /\ Len(world.repays) = 2
    /\ world.repays[1].status = "revert"
    /\ world.repays[2] = [market |-> "tokenMarket", amount |-> 1, status |-> "ok"]
    /\ snapshot.debt["tokenMarket"] = 2
    /\ world.debt["tokenMarket"] = 1
    /\ world.token["proxy"] = 0

\* C17: after a successful transferAll(token, to) with to other than the proxy,
\* the proxy's balance of the token is zero, to's balance has grown by what the
\* proxy held, and every other balance, of that token and of the other, is as
\* before; native currency for ETH_ADDRESS, the token otherwise.
C17_TransferAll ==
    (HelperRan("transferAll") /\ done[1].success /\ done[1].call.data.to # "proxy") =>
        LET to == done[1].call.data.to
            moved == IF done[1].call.data.token = ETH_ADDRESS
                     THEN [before |-> snapshot.eth, after |-> world.eth,
                           otherBefore |-> snapshot.token, otherAfter |-> world.token]
                     ELSE [before |-> snapshot.token, after |-> world.token,
                           otherBefore |-> snapshot.eth, otherAfter |-> world.eth]
        IN /\ moved.after["proxy"] = 0
           /\ moved.after[to] = moved.before[to] + moved.before["proxy"]
           /\ \A a \in Holders \ {"proxy", to} : moved.after[a] = moved.before[a]
           /\ moved.otherAfter = moved.otherBefore
           /\ world.debt = snapshot.debt

\* The proxy held 2 tokens and 1 of native currency and sent all its tokens to the
\* user, who held 1.
C17_Witness ==
    /\ lastTx.status = "committed"
    /\ done[1].call.data = Payload("transferAll", TokenAddress, "user", "none")
    /\ snapshot.token["proxy"] = 2
    /\ world.token["proxy"] = 0
    /\ world.token["user"] = 3
    /\ world.eth["proxy"] = 1

TotalEth(w) ==
    w.eth["proxy"] + w.eth["target"] + w.eth["user"] + w.eth["tokenMarket"]
        + w.eth["ethMarket"] + w.eth["maximillion"]

\* C18: repayBorrowCozyEther on a market whose underlying is not native currency
\* fails with "Attempted to repay token market" and nothing is forwarded; on the
\* ether market it forwards the proxy's whole native balance, and when it
\* succeeds the debt is lower by the lesser of the debt and the balance, the
\* proxy holds the balance less that amount, the market holds that amount more
\* and the repayment helper holds nothing; it succeeds whenever the market
\* accepts the repayment, also when the balance is less than the debt; native
\* currency is never lost.
C18_RepayEther ==
    /\ TotalEth(world) = TotalEth(snapshot)
    /\ HelperRan("repayBorrowCozyEther") =>
          LET forwarded == snapshot.eth["proxy"]
              owed == snapshot.debt["ethMarket"]
              repaid == Min(owed, forwarded)
          IN /\ done[1].call.data.market # "ethMarket" =>
                   /\ ~done[1].success
                   /\ done[1].response = EncodeError("Attempted to repay token market")
                   /\ world = snapshot
             /\ (done[1].call.data.market = "ethMarket" /\ NextAnswer(snapshot) = "normal") =>
                   done[1].success
             /\ done[1].success =>
                   /\ world.repays = <<[market |-> "ethMarket", amount |-> repaid,
                                         status |-> "ok"]>>
                   /\ world.debt["ethMarket"] = owed - repaid
                   /\ world.debt["tokenMarket"] = snapshot.debt["tokenMarket"]
                   /\ world.eth["proxy"] = forwarded - repaid
                   /\ world.eth["ethMarket"] = snapshot.eth["ethMarket"] + repaid
                   /\ world.eth["maximillion"] = 0
                   /\ world.token = snapshot.token
             /\ ~done[1].success => Chain(world) = Chain(snapshot)

\* The proxy held 2 and owed 1: 1 was repaid and 1 came back.
C18_Witness ==
    /\ lastTx.status = "committed"
    /\ done[1].call.data.fn = "repayBorrowCozyEther"
    /\ done[1].success
    /\ snapshot.eth["proxy"] = 2
    /\ snapshot.debt["ethMarket"] = 1
    /\ world.eth["proxy"] = 1
    /\ world.debt["ethMarket"] = 0
    /\ world.eth["ethMarket"] = 1

-----------------------------------------------------------------------------
(* Properties of the invest adapter *)

ValidMarket(m) == m = moneyMarket \/ m = protectionMarket

\* invest called borrow and the market answered with an error code.
BorrowReturnedError ==
    lastOp.op = "invest" /\ lastOp.calls # <<>> /\ lastOp.borrow = "error"

\* The status of the last repay call of the helper that has just run.
LastAttempt == world.repays[Len(world.repays)].status

\* The statement that no operation goes on or succeeds after a market call
\* returned an error code: invest fails when borrow did, and
\* repayBorrowCozyToken fails when any of its repay calls did.
C16_NoErrorCodeTolerated ==
    /\ BorrowReturnedError => (~lastOp.ok /\ ~lastOp.changed)
    /\ HelperRan("repayBorrowCozyToken") =>
          /\ (\E k \in 1..Len(world.repays) : world.repays[k].status = "error") =>
                ~done[1].success
          /\ (Len(world.repays) > 0 /\ world.repays[1].status = "error") =>
                Len(world.repays) = 1

\* C16 (as amended): an error code from borrow makes invest fail with "Borrow
\* failed" and change nothing; an error code from the second repay call of
\* repayBorrowCozyToken makes the helper fail with "Repay attempts failed" and
\* change nothing; an error code from its first repay call makes the helper go on
\* to the second call, and the helper succeeds exactly when its last repay call
\* succeeded.
C16_ErrorCodesSurfaced ==
    /\ BorrowReturnedError =>
          /\ ~lastOp.ok
          /\ lastOp.reason = "Borrow failed"
          /\ ~lastOp.changed
          /\ Len(lastOp.calls) = 1
    /\ (HelperRan("repayBorrowCozyToken") /\ world.repays # <<>>) =>
          /\ (Len(world.repays) = 2 /\ LastAttempt = "error") =>
                /\ ~done[1].success
                /\ done[1].response = EncodeError("Repay attempts failed")
                /\ Chain(world) = Chain(snapshot)
          /\ world.repays[1].status = "error" => Len(world.repays) = 2
          /\ done[1].success <=> LastAttempt = "ok"
    /\ (lastTx.status = "committed" /\ done[1].success /\ world.repays # <<>>) =>
          LastAttempt = "ok"

\* The first repay call returned an error code, the second one repaid the proxy's
\* balance, and the batch committed.
C16_Witness ==
    /\ lastTx.status = "committed"
    /\ done[1].success
    /\ Len(world.repays) = 2
    /\ world.repays[1].status = "error"
    /\ world.repays[2].status = "ok"
    /\ world.debt["tokenMarket"] < snapshot.debt["tokenMarket"]

\* C19: invest and divest called with a market that is neither moneyMarket nor
\* protectionMarket fail with "Invalid borrow market", whatever the amount, having
\* made no external call and changed nothing; no debt is ever held in another
\* market, and every borrow and every repayment goes to one of the two.
C19_OnlyConfiguredMarkets ==
    /\ (lastOp.op \in {"invest", "divest"} /\ ~ValidMarket(lastOp.market)) =>
          /\ ~lastOp.ok
          /\ lastOp.reason = "Invalid borrow market"
          /\ lastOp.calls = <<>>
          /\ ~lastOp.changed
    /\ \A m \in MarketAddresses : ~ValidMarket(m) => position.debt[m] = 0
    /\ \A k \in 1..Len(lastOp.calls) :
          lastOp.calls[k].fn \in {"borrow", "repayBehalfExplicit"} =>
              ValidMarket(lastOp.calls[k].target)

\* With a position open, invest was called with another market and amount zero.
C19_Witness ==
    /\ lastOp.op = "invest"
    /\ lastOp.market = badMarket
    /\ lastOp.amount = 0
    /\ ~lastOp.ok
    /\ position.staked > 0
    /\ position.debt[protectionMarket] > 0

\* C20: when borrow returns an error code, invest fails with "Borrow failed";
\* borrow is the only external call it made: no liquidity is added, no allowance
\* granted, nothing staked, and the position, debt included, is as before.
C20_BorrowFailed ==
    BorrowReturnedError =>
        /\ ~lastOp.ok
        /\ lastOp.reason = "Borrow failed"
        /\ lastOp.calls = <<ExtCall("borrow", lastOp.market, lastOp.amount)>>
        /\ ~lastOp.changed

\* The first invest of a proxy failed on the borrow: nothing is staked, no
\* allowance is granted and there is no debt.
C20_Witness ==
    /\ BorrowReturnedError
    /\ lastOp.market = moneyMarket
    /\ lastOp.amount = 1
    /\ position.staked = 0
    /\ position.lp = 0
    /\ position.allowance["gauge"] = 0
    /\ position.debt[moneyMarket] = 0
\* The approvals among the external calls of the last adapter transaction.
Approvals(calls) == {k \in 1..Len(calls) : calls[k].fn = "approve"}

\* C21: an approve is only ever issued to a spender whose allowance from the
\* proxy is zero at that moment: no adapter transaction approves a spender that
\* held a nonzero allowance when the transaction began.
C21_ApproveOnlyFromZero ==
    [][\A k \in Approvals(lastOp'.calls) :
          position.allowance[lastOp'.calls[k].target] = 0]_vars

\* A second invest with no divest in between has approved the gauge again: the
\* allowance to depositZap is still zero, the gauge holds the unlimited allowance
\* and more is staked than this invest deposited.
C21_Witness ==
    /\ lastOp.op = "invest"
    /\ lastOp.ok
    /\ \E k \in Approvals(lastOp.calls) : lastOp.calls[k].target = "gauge"
    /\ position.allowance["depositZap"] = 0
    /\ position.allowance["gauge"] = MaxUint256
    /\ \E k \in 1..Len(lastOp.calls) :
          lastOp.calls[k].fn = "deposit" /\ lastOp.calls[k].amount < position.staked
\* The amount of the one call named fn among calls, zero when there is none.
AmountOf(calls, fn) ==
    IF \E k \in 1..Len(calls) : calls[k].fn = fn
    THEN calls[CHOOSE k \in 1..Len(calls) : calls[k].fn = fn].amount
    ELSE 0

\* C22: divest repays best-effort and refunds the rest. With F the proxy's native
\* balance after removing liquidity (what it held, the value attached and what
\* the venue paid out) and D the debt on market before the call, a successful
\* divest forwards F to the repayment, leaves debt D - min(D, F), sends
\* F - min(D, F) to recipient and leaves the proxy with no native balance; the
\* debt on the other market is untouched, and a nonzero refund means the debt on
\* market is cleared.
C22_BestEffortRepay ==
    [][(lastOp'.op = "divest" /\ lastOp'.ok) =>
          LET market == lastOp'.market
              D == position.debt[market]
              F == position.eth["proxy"] + lastOp'.value + lastOp'.paid
              sent == AmountOf(lastOp'.calls, "sendValue")
          IN /\ AmountOf(lastOp'.calls, "repayBehalfExplicit") = F
             /\ position'.debt[market] = D - Min(D, F)
             /\ sent = F - Min(D, F)
             /\ position'.eth["proxy"] = 0
             /\ \A m \in MarketAddresses \ {market} : position'.debt[m] = position.debt[m]
             /\ (sent > 0 => position'.debt[market] = 0)]_vars

\* A divest with value attached has succeeded without clearing the debt: what
\* was forwarded went to the repayment, recipient was sent nothing and debt
\* remains.
C22_Witness ==
    /\ lastOp.op = "divest"
    /\ lastOp.ok
    /\ lastOp.value = 1
    /\ AmountOf(lastOp.calls, "repayBehalfExplicit") = 1
    /\ AmountOf(lastOp.calls, "sendValue") = 0
    /\ position.debt[lastOp.market] = 1
\* The calls named fn among calls.
CallsOf(calls, fn) == {k \in 1..Len(calls) : calls[k].fn = fn}

\* C23: each successful divest takes exactly redeemAmount out of the staked
\* balance, so a divest of what remains after a partial divest leaves nothing
\* staked; it leaves the proxy's unstaked receipt tokens as they were, and it
\* claims the rewards exactly once, for the recipient it sends the funds to.
C23_PartialDivest ==
    [][(lastOp'.op = "divest" /\ lastOp'.ok) =>
          /\ lastOp'.amount <= position.staked
          /\ position'.staked = position.staked - lastOp'.amount
          /\ (lastOp'.amount = position.staked => position'.staked = 0)
          /\ position'.lp = position.lp
          /\ Cardinality(CallsOf(lastOp'.calls, "claim_rewards")) = 1
          /\ \A k \in CallsOf(lastOp'.calls, "claim_rewards"),
                l \in CallsOf(lastOp'.calls, "sendValue") :
                  lastOp'.calls[k].target = lastOp'.calls[l].target]_vars

\* A partial divest has succeeded: part of the position is still staked and the
\* proxy holds no unstaked receipt tokens.
C23_Witness ==
    /\ lastOp.op = "divest"
    /\ lastOp.ok
    /\ lastOp.amount = 1
    /\ position.staked = 1
    /\ position.lp = 0
    /\ CallsOf(lastOp.calls, "claim_rewards") # {}
\* C24: each successful invest stakes everything it deploys: the staked balance
\* grows by exactly the receipt tokens the venue returned, which is the amount
\* deposited in the gauge; the proxy's unstaked receipt tokens are as before; the
\* debt on market grows by borrowAmount and the debt on the other market is
\* untouched. Successive invests therefore add up.
C24_InvestStakesAll ==
    [][(lastOp'.op = "invest" /\ lastOp'.ok) =>
          /\ position'.staked = position.staked + lastOp'.paid
          /\ AmountOf(lastOp'.calls, "deposit") = lastOp'.paid
          /\ AmountOf(lastOp'.calls, "add_liquidity") = lastOp'.amount
          /\ position'.lp = position.lp
          /\ position'.debt[lastOp'.market] = position.debt[lastOp'.market] + lastOp'.amount
          /\ \A m \in MarketAddresses \ {lastOp'.market} :
                position'.debt[m] = position.debt[m]
          /\ position'.eth = position.eth]_vars

\* An invest has succeeded on top of an earlier one: more is staked and more is
\* owed than this invest deployed and borrowed.
C24_Witness ==
    /\ lastOp.op = "invest"
    /\ lastOp.ok
    /\ lastOp.amount = 1
    /\ lastOp.paid = 1
    /\ position.staked = 2
    /\ position.debt[lastOp.market] = 2
    /\ position.lp = 0
\* The places of the receipt's logs that contract parses to the name.
Parseable(contract, name) ==
    {k \in 1..Len(receipt.logs) :
        receipt.logs[k].event \in contract /\ receipt.logs[k].event = name}

\* C25: on a transaction that did not revert, findLog returns exactly when the
\* receipt holds a log of the name that the contract parses, and then returns the
\* first of them; otherwise it throws: the 'Transaction failed' error, having
\* printed the error codes of the first Failure log, when the contract parses a
\* Failure log of the receipt, and the 'both not found' error, having printed
\* nothing, when it parses none. A log the contract cannot parse causes no error
\* of its own.
C25_FindLog ==
    (lastFind.called /\ receipt.status = 1) =>
        LET out == lastFind.out
            wanted == Parseable(lastFind.contract, lastFind.logName)
            failures == Parseable(lastFind.contract, "Failure")
        IN /\ out.returned <=> wanted # {}
           /\ out.returned =>
                 /\ out.found \in wanted
                 /\ \A k \in wanted : out.found <= k
                 /\ out.log = ParsedLog(receipt.logs[out.found])
                 /\ out.printed = <<>>
           /\ (~out.returned /\ failures # {}) =>
                 /\ out.thrown = FailedMessage
                 /\ \E f \in failures :
                       /\ \A k \in failures : f <= k
                       /\ out.printed = <<receipt.logs[f].args>>
           /\ (~out.returned /\ failures = {}) =>
                 /\ out.thrown = NotFoundMessage
                 /\ out.printed = <<>>

\* findLog has thrown 'Transaction failed' on a transaction that did not revert:
\* the receipt begins with a log the contract cannot parse and holds a Failure
\* log but no log of the expected name.
C25_Witness ==
    /\ lastFind.called
    /\ receipt.status = 1
    /\ lastFind.logName = "Mint"
    /\ Len(receipt.logs) = 2
    /\ receipt.logs[1].event = "Transfer"
    /\ receipt.logs[2] = [event |-> "Failure", args |-> 2]
    /\ lastFind.out.thrown = FailedMessage
    /\ lastFind.out.printed = <<2>>
\* The call at place k of done stops the batch: it is a mandatory call that
\* failed, or a self-context call that carries value.
StopsBatch(d) == SelfCallWithValue(d) \/ (~d.success /\ d.call.requireSuccess)

\* C26: batchCalls runs the calls one after the other, in batch order, within one
\* transaction: a call is dispatched only at the loop head, when every earlier
\* call has returned and its result has been handled and recorded in
\* _returnData; and no call is dispatched after a mandatory call has failed or a
\* self-context call with value has been met: such a call is the last one the
\* transaction reaches.
C26_StrictlySequential ==
    /\ [][Len(done') # Len(done) =>
             /\ Len(done') = Len(done) + 1
             /\ pc = "loop"
             /\ lastTx.status = "pending"
             /\ loopIndex = Len(done)
             /\ Len(done) < callsLength
             /\ \A k \in 1..Len(done) :
                   /\ ~StopsBatch(done[k])
                   /\ returnData[k] = done[k].response
                   /\ done'[k] = done[k]]_vars
    /\ [](\A k \in 1..Len(done) : StopsBatch(done[k]) => k = Len(done))
    /\ [](Len(done) \in {loopIndex, loopIndex + 1})
    /\ []((lastTx.status = "pending" /\ Len(done) = loopIndex + 1) => pc = "handle")

\* A batch of three was aborted at its second call, a mandatory call that failed
\* after the first call had succeeded: the third call was never dispatched.
C26_Witness ==
    /\ lastTx.status = "reverted"
    /\ callsLength = 3
    /\ Len(done) = 2
    /\ done[1].success
    /\ done[2].dispatched
    /\ ~done[2].success
    /\ done[2].call.requireSuccess
\* The transaction was aborted by a mandatory call that failed: the last call
\* the loop reached.
AbortedByFailure ==
    /\ lastTx.status = "reverted"
    /\ done # <<>>
    /\ MandatoryFailure(Len(done))

\* C27: when a mandatory call fails, the batch fails with the reason the failed
\* call reverted with, character for character, when the payload is an
\* Error(string) of at least 68 bytes, and with 'Transaction reverted silently'
\* exactly when the payload is shorter than 68 bytes, the empty payload included.
C27_RevertReason ==
    AbortedByFailure =>
        LET d == done[Len(done)]
        IN /\ (lastTx.reason = "Transaction reverted silently")
                 <=> (d.response.len < MinReasonLength)
           /\ (d.response.len >= MinReasonLength /\ d.response.sel = "Error") =>
                 lastTx.reason = d.response.text
           /\ d.response = EmptyBytes => lastTx.reason = "Transaction reverted silently"
           /\ d.call.data.fn = "fail" => lastTx.reason = "Target failed"
           /\ d.call.data.fn = "failNoReason" => lastTx.reason = ""
           /\ d.call.data.fn = "transferAll" =>
                 lastTx.reason = "Address: unable to send value, recipient may have reverted"

\* After an optional call that failed on an assertion, a mandatory transferAll to
\* an account that accepts no native currency has aborted the batch with the
\* reason of sendValue, a payload of 132 bytes.
C27_Witness ==
    /\ AbortedByFailure
    /\ Len(done) = 2
    /\ done[1].call.data.fn = "failPanic"
    /\ done[2].call.data.fn = "transferAll"
    /\ done[2].response.len = 132
    /\ lastTx.reason = "Address: unable to send value, recipient may have reverted"
\* The loop reaches a call in this step.
Reaches == Len(done') = Len(done) + 1

\* C28: how a call is dispatched depends on its target alone. A call to
\* DELEGATECALL_ADDRESS runs the executor's own method on the proxy's state:
\* transferAll empties the proxy's native balance into the recipient's, and a
\* payload that names no method of the executor fails and changes nothing. A call
\* to any other target is an external call that carries exactly its value:
\* deposit() moves the value from the proxy to the target and counts, and a
\* payload that names a method of the executor does not run it: the call fails
\* and the proxy's balances are as before. Only a call to DELEGATECALL_ADDRESS
\* with value is not dispatched at all.
C28_DispatchByTarget ==
    [][Reaches =>
          LET d == done'[Len(done')]
              self == d.call.target = DELEGATECALL_ADDRESS
          IN /\ d.dispatched <=> ~(self /\ d.call.value # 0)
             /\ (d.dispatched /\ self /\ d.call.data.fn = "transferAll") =>
                   /\ d.success
                   /\ world'.eth["proxy"] = 0
                   /\ world'.eth["user"] = world.eth["user"] + world.eth["proxy"]
                   /\ world'.eth["target"] = world.eth["target"]
                   /\ world'.counter = world.counter
             /\ (d.dispatched /\ self /\ d.call.data.fn = "deposit") =>
                   /\ ~d.success
                   /\ world' = world
             /\ (~self /\ d.call.data.fn = "deposit") =>
                   /\ d.success <=> world.eth["proxy"] >= d.call.value
                   /\ d.success =>
                         /\ world'.eth["proxy"] = world.eth["proxy"] - d.call.value
                         /\ world'.eth[d.call.target] =
                               world.eth[d.call.target] + d.call.value
                         /\ world'.counter = world.counter + 1
                   /\ ~d.success => world' = world
                   /\ world'.eth["user"] = world.eth["user"]
             /\ (~self /\ d.call.data.fn = "transferAll") =>
                   /\ ~d.success
                   /\ world' = world]_vars

\* The same transferAll payload was sent to the target and then to
\* DELEGATECALL_ADDRESS: the first call failed and left the proxy's balance in
\* place, the second one moved it to the user.
C28_Witness ==
    /\ Len(done) = 2
    /\ done[1].call.data.fn = "transferAll"
    /\ done[1].call.target = "target"
    /\ ~done[1].success
    /\ done[2].call.data = done[1].call.data
    /\ done[2].call.target = DELEGATECALL_ADDRESS
    /\ done[2].success
    /\ snapshot.eth["proxy"] = 2
    /\ world.eth["proxy"] = 0
    /\ world.eth["user"] = 2
\* The manual-flag MockTrigger is the deployed trigger.
ManualFlag == kind = "MockTriggerFlag"

\* C29: for the manual-flag MockTrigger, isTriggered implies shouldToggle in
\* every state. Its constructor fails only with 'Already triggered', every
\* deployed instance was constructed with _shouldToggle = false and starts with
\* both flags false; setShouldToggle called while isTriggered is false succeeds
\* and sets shouldToggle to its argument; called once isTriggered is true it
\* fails with 'Cannot set after trigger event' and changes nothing.
C29_TriggeredImpliesShouldToggle ==
    /\ [](ManualFlag => (trigger.isTriggered => trigger.shouldToggle))
    /\ []((lastCall.op = "constructor" /\ lastCall.arg = TextValue("MockTriggerFlag")) =>
             /\ lastCall.reverted => (lastCall.reason = "Already triggered" /\ ~Deployed)
             /\ ~lastCall.reverted =>
                   /\ ManualFlag
                   /\ ~ctorArgs.shouldToggle
                   /\ ~trigger.isTriggered
                   /\ ~trigger.shouldToggle)
    /\ [](ManualFlag => ~ctorArgs.shouldToggle)
    /\ [](lastCall.op = "setShouldToggle" =>
             /\ lastCall.reverted <=> lastCall.preTriggered
             /\ lastCall.reverted => lastCall.reason = "Cannot set after trigger event"
             /\ ~lastCall.reverted => BoolValue(trigger.shouldToggle) = lastCall.arg)
    /\ [][(lastCall'.op = "setShouldToggle" /\ trigger.isTriggered) =>
             /\ lastCall'.reverted
             /\ trigger' = trigger
             /\ logs' = logs]_vars

\* On a triggered manual-flag MockTrigger, setShouldToggle(false) has failed:
\* both flags are still true.
C29_Witness ==
    /\ ManualFlag
    /\ lastCall.op = "setShouldToggle"
    /\ lastCall.arg = BoolValue(FALSE)
    /\ lastCall.reverted
    /\ lastCall.reason = "Cannot set after trigger event"
    /\ trigger.isTriggered
    /\ trigger.shouldToggle
\* The calls the loop reached that failed.
FailedCalls == {k \in 1..Len(done) : done[k].dispatched /\ ~done[k].success}

\* C30: a batch completes exactly when none of its calls is a self-context call
\* with value and every call that fails is optional. Of a completed batch every
\* call has run, there are as many CallFailed events as failed calls, each with
\* the index of its call, in increasing order, and nothing else is emitted by
\* the executor. A batch that does not complete is aborted as a whole, at the
\* first call that is a self-context call with value or a mandatory call that
\* failed: the chain state is that of its start. There is no third outcome.
C30_CompletesIffNoStop ==
    /\ (pc = "idle" /\ lastTx.status # "none") => lastTx.status \in {"committed", "reverted"}
    /\ lastTx.status \in {"committed", "reverted"} =>
          (lastTx.status = "committed" <=> \A k \in 1..Len(done) : ~StopsBatch(done[k]))
    /\ lastTx.status = "committed" =>
          /\ Len(done) = callsLength
          /\ Len(world.events) = Cardinality(FailedCalls)
          /\ \A e \in 1..Len(world.events) :
                /\ world.events[e].name = "CallFailed"
                /\ world.events[e].index + 1 \in FailedCalls
                /\ \A f \in 1..Len(world.events) :
                      e < f => world.events[e].index < world.events[f].index
          /\ \A k \in FailedCalls : ~done[k].call.requireSuccess
    /\ lastTx.status = "reverted" =>
          /\ done # <<>>
          /\ StopsBatch(done[Len(done)])
          /\ \A k \in 1..(Len(done) - 1) : ~StopsBatch(done[k])
          /\ world = snapshot
          /\ lastTx.returned = <<>>

\* A batch of three has completed although its first and its third call failed:
\* both were optional, and CallFailed(0) and CallFailed(2) were emitted in that
\* order.
C30_Witness ==
    /\ lastTx.status = "committed"
    /\ callsLength = 3
    /\ FailedCalls = {1, 3}
    /\ done[2].success
    /\ world.events = <<[name |-> "CallFailed", index |-> 0],
                        [name |-> "CallFailed", index |-> 2]>>

=============================================================================
